---- MODULE Spec2Model ----
(***************************************************************************)
(* State bindings (hooks) of shapeshyft_client over the ShapeshyftClient   *)
(* facade and an injected network transport.                               *)
(*                                                                         *)
(* One binding instance is modelled at a time; its family (`kind`) is      *)
(* chosen at construction.  Every asynchronous operation of the binding is *)
(* a small process: it is dispatched (Invoke), its transport call settles  *)
(* (Settle), and a mutation that awaits a follow-up refresh resumes after  *)
(* that refresh has finished (Resume).                                     *)
(*                                                                         *)
(* Texts are sequences of words, so that concatenation and                 *)
(* String.prototype.includes are computed and not assumed.  An optional    *)
(* text is <<>> (null / undefined) or <<text>>.                            *)
(***************************************************************************)
EXTENDS Integers, Sequences, FiniteSets, TLC

\* Largest number of operations invoked one after the other in a behaviour
\* of Spec, where every transport outcome and every caller input is drawn.
MaxOps == 2

\* Largest number of operations invoked in a behaviour of SpecOverlap, where
\* operations of the binding overlap freely.
MaxOverlap == 2

----------------------------------------------------------------------------
\* Texts

NULL == <<>>

Some(s) == <<s>>

\* JavaScript truthiness of an optional text: null, undefined and '' are falsy.
Truthy(o) == o # NULL /\ o[1] # <<>>

\* a || b on optional texts, b being a text
OrElse(o, b) == IF Truthy(o) THEN o[1] ELSE b

\* String.prototype.includes
Includes(s, sub) ==
  \E i \in 1..(Len(s) + 1) :
     /\ i + Len(sub) - 1 <= Len(s)
     /\ SubSeq(s, i, i + Len(sub) - 1) = sub

ServerError == <<"Server", "error">>
notFound == <<"not", "found">>
NotFoundCap == <<"Not", "found">>
NetworkError == <<"Network", "error">>
Http404 == <<"HTTP", "404">>
EmptyText == <<>>
SomeMessage == <<"try", "later">>

\* Payload values; "undefined" is an absent payload.
Payloads == {"d1", "d2"}
NoData == "undefined"

----------------------------------------------------------------------------
\* Response envelope  { success, data?, error?, message? }

Env(s, d, e, m) == [success |-> s, data |-> d, error |-> e, message |-> m]

NoEnv == Env(FALSE, NoData, NULL, NULL)

SuccessEnvelopes == {Env(TRUE, d, NULL, NULL) : d \in Payloads \cup {NoData}}

FailureEnvelopes ==
  {Env(FALSE, NoData, e, NULL) :
       e \in {NULL, Some(ServerError), Some(notFound), Some(NotFoundCap)}}
  \cup {Env(FALSE, NoData, NULL, Some(SomeMessage))}

\* What the transport can do with a call: resolve with { ok, data? } or throw.
Resolve(ok, hasEnv, env) ==
  [t |-> "resolve", ok |-> ok, hasEnv |-> hasEnv, env |-> env,
   isError |-> FALSE, msg |-> EmptyText]

Throw(isError, msg) ==
  [t |-> "throw", ok |-> FALSE, hasEnv |-> FALSE, env |-> NoEnv,
   isError |-> isError, msg |-> msg]

NoOutcome ==
  [t |-> "none", ok |-> FALSE, hasEnv |-> FALSE, env |-> NoEnv,
   isError |-> FALSE, msg |-> EmptyText]

TransportOutcomes ==
  {Resolve(TRUE, TRUE, e) : e \in SuccessEnvelopes \cup FailureEnvelopes}
  \cup {Resolve(FALSE, TRUE, e) :
          e \in {Env(FALSE, NoData, Some(ServerError), NULL),
                 Env(FALSE, NoData, Some(notFound), NULL),
                 Env(FALSE, NoData, NULL, Some(SomeMessage)),
                 Env(FALSE, NoData, NULL, NULL)}}
  \cup {Resolve(TRUE, FALSE, NoEnv), Resolve(FALSE, FALSE, NoEnv)}
  \cup {Resolve(TRUE, TRUE, Env(TRUE, NoData, Some(ServerError), NULL))}
  \cup {Throw(TRUE, m) : m \in {NetworkError, EmptyText, Http404, notFound}}
  \cup {Throw(FALSE, EmptyText)}

----------------------------------------------------------------------------
\* shapeshyft-helpers and the facade

\* Mutant: an error handler that never reads the message field.
handleApiError_ErrorOnly(response, operation) ==
  LET e == IF response.hasEnv THEN response.env.error ELSE NULL
  IN  <<"Failed", "to">> \o operation \o <<":">>
        \o OrElse(e, <<"Unknown", "error">>)

\* handleApiError: resp?.data?.error || resp?.data?.message || 'Unknown error'
handleApiError(response, operation) ==
  LET e == IF response.hasEnv THEN response.env.error ELSE NULL
      m == IF response.hasEnv THEN response.env.message ELSE NULL
      errorMessage == OrElse(e, OrElse(m, <<"Unknown", "error">>))
  IN  <<"Failed", "to">> \o operation \o <<":">> \o errorMessage

\* The operation label a facade method hands to handleApiError.  The methods
\* of keys, projects, endpoints and analytics are labelled as in the facade;
\* every other method is labelled by its own name.
FacadeOperation(method) ==
  CASE method = "getKeys" -> <<"get", "keys">>
    [] method = "getKey" -> <<"get", "key">>
    [] method = "createKey" -> <<"create", "key">>
    [] method = "updateKey" -> <<"update", "key">>
    [] method = "deleteKey" -> <<"delete", "key">>
    [] method = "getProjects" -> <<"get", "projects">>
    [] method = "getProject" -> <<"get", "project">>
    [] method = "createProject" -> <<"create", "project">>
    [] method = "updateProject" -> <<"update", "project">>
    [] method = "deleteProject" -> <<"delete", "project">>
    [] method = "getEndpoints" -> <<"get", "endpoints">>
    [] method = "getEndpoint" -> <<"get", "endpoint">>
    [] method = "createEndpoint" -> <<"create", "endpoint">>
    [] method = "updateEndpoint" -> <<"update", "endpoint">>
    [] method = "deleteEndpoint" -> <<"delete", "endpoint">>
    [] method = "getAnalytics" -> <<"get", "analytics">>
    [] method = "executeAiGet" -> <<"execute", "AI", "(GET)">>
    [] method = "executeAiPost" -> <<"execute", "AI", "(POST)">>
    [] OTHER -> <<method>>

\* The result of a facade method: it returns the envelope or throws.
Returned(env) == [threw |-> FALSE, env |-> env, isError |-> FALSE, msg |-> EmptyText]

Thrown(isError, msg) == [threw |-> TRUE, env |-> NoEnv, isError |-> isError, msg |-> msg]

\* Mutant: a facade that reports a transport exception under its own
\* 'Failed to <operation>' message.
FacadeResult_Wrap(out, method) ==
  IF out.t = "throw" \/ ~out.ok \/ ~out.hasEnv
  THEN Thrown(TRUE, handleApiError(out, FacadeOperation(method)))
  ELSE Returned(out.env)

\* Every facade method after its transport call has settled with `out`:
\* a transport exception propagates; !response.ok || !response.data throws
\* handleApiError; otherwise response.data (the envelope) is returned.
\* The methods of the settings, storage-configuration, entities and
\* rate-limits families are taken to share this body.
FacadeResult(out, method) ==
  IF out.t = "throw" THEN Thrown(out.isError, out.msg)
  ELSE IF ~out.ok \/ ~out.hasEnv
       THEN Thrown(TRUE, handleApiError(out, FacadeOperation(method)))
       ELSE Returned(out.env)

----------------------------------------------------------------------------
\* Facade verbs

\* Verbs of the facade methods whose bodies are not part of the sources at
\* hand, after the path table of the specification.
MissingFacadeVerb(method) ==
  CASE method \in {"getSettings", "getStorageConfig", "getEntities", "getEntity",
                   "getEntityMembers", "getEntityInvitations", "getMyInvitations",
                   "getRateLimitsConfig", "getRateLimitHistory",
                   "getProjectApiKey"} -> "get"
    [] method \in {"createEntity", "createEntityInvitation", "acceptInvitation",
                   "declineInvitation", "createStorageConfig",
                   "refreshProjectApiKey"} -> "post"
    [] method \in {"updateSettings", "updateEntity", "updateEntityMemberRole",
                   "updateStorageConfig"} -> "put"
    [] OTHER -> "delete"

\* The transport verb a facade method uses.
FacadeVerb(method) ==
  CASE method \in {"getKeys", "getKey", "getProjects", "getProject",
                   "getEndpoints", "getEndpoint", "getAnalytics",
                   "executeAiGet"} -> "get"
    [] method \in {"createKey", "createProject", "createEndpoint",
                   "executeAiPost"} -> "post"
    [] method \in {"updateKey", "updateProject", "updateEndpoint"} -> "put"
    [] method \in {"deleteKey", "deleteProject", "deleteEndpoint"} -> "delete"
    [] OTHER -> MissingFacadeVerb(method)

----------------------------------------------------------------------------
\* The operations of each binding.
\*   cls       "refresh" (collection / record read that fills the held data),
\*             "read" (single-record read) or "mutation"
\*   method    the facade method called
\*   flag      the loading flag the operation drives
\*   field     the data field the operation writes ("-" when none)
\*   store     how a returned envelope is applied to `field`:
\*             refresh: "standard" or "absentOk";
\*             others : "none", "data" (store response.data) or "clear"
\*   followups the refresh operations awaited after a successful mutation
\*   fallback  the default error text of the operation
\*   scoped    the operation takes scope identifiers
\*   filtered  the operation takes filter params

Op(cls, method, flag, field, store, followups, fallback, scoped, filtered) ==
  [cls |-> cls, method |-> method, flag |-> flag, field |-> field,
   store |-> store, followups |-> followups, fallback |-> fallback,
   scoped |-> scoped, filtered |-> filtered]

F(w) == <<"Failed", "to">> \o w

KeysOps ==
  [refresh   |-> Op("refresh", "getKeys", "isLoading", "keys", "standard", <<>>,
                    F(<<"fetch", "keys">>), TRUE, FALSE),
   getKey    |-> Op("read", "getKey", "isLoading", "-", "none", <<>>,
                    F(<<"get", "key">>), TRUE, FALSE),
   createKey |-> Op("mutation", "createKey", "isLoading", "-", "none", <<"refresh">>,
                    F(<<"create", "key">>), TRUE, FALSE),
   updateKey |-> Op("mutation", "updateKey", "isLoading", "-", "none", <<"refresh">>,
                    F(<<"update", "key">>), TRUE, FALSE),
   deleteKey |-> Op("mutation", "deleteKey", "isLoading", "-", "none", <<"refresh">>,
                    F(<<"delete", "key">>), TRUE, FALSE)]

ProjectsOps ==
  [refresh       |-> Op("refresh", "getProjects", "isLoading", "projects", "standard",
                        <<>>, F(<<"fetch", "projects">>), TRUE, TRUE),
   getProject    |-> Op("read", "getProject", "isLoading", "-", "none", <<>>,
                        F(<<"get", "project">>), TRUE, FALSE),
   createProject |-> Op("mutation", "createProject", "isLoading", "-", "none",
                        <<"refresh">>, F(<<"create", "project">>), TRUE, FALSE),
   updateProject |-> Op("mutation", "updateProject", "isLoading", "-", "none",
                        <<"refresh">>, F(<<"update", "project">>), TRUE, FALSE),
   deleteProject |-> Op("mutation", "deleteProject", "isLoading", "-", "none",
                        <<"refresh">>, F(<<"delete", "project">>), TRUE, FALSE),
   getProjectApiKey |-> Op("read", "getProjectApiKey", "isLoading", "-", "none",
                        <<>>, F(<<"get", "API", "key">>), TRUE, FALSE),
   refreshProjectApiKey |-> Op("mutation", "refreshProjectApiKey", "isLoading", "-",
                        "none", <<"refresh">>, F(<<"refresh", "API", "key">>),
                        TRUE, FALSE)]

EndpointsOps ==
  [refresh        |-> Op("refresh", "getEndpoints", "isLoading", "endpoints",
                         "standard", <<>>, F(<<"fetch", "endpoints">>), TRUE, TRUE),
   getEndpoint    |-> Op("read", "getEndpoint", "isLoading", "-", "none", <<>>,
                         F(<<"get", "endpoint">>), TRUE, FALSE),
   createEndpoint |-> Op("mutation", "createEndpoint", "isLoading", "-", "none",
                         <<"refresh">>, F(<<"create", "endpoint">>), TRUE, FALSE),
   updateEndpoint |-> Op("mutation", "updateEndpoint", "isLoading", "-", "none",
                         <<"refresh">>, F(<<"update", "endpoint">>), TRUE, FALSE),
   deleteEndpoint |-> Op("mutation", "deleteEndpoint", "isLoading", "-", "none",
                         <<"refresh">>, F(<<"delete", "endpoint">>), TRUE, FALSE)]

AnalyticsOps ==
  [refresh |-> Op("refresh", "getAnalytics", "isLoading", "analytics", "standard",
                  <<>>, F(<<"fetch", "analytics">>), TRUE, TRUE)]

SettingsOps ==
  [refresh        |-> Op("refresh", "getSettings", "isLoading", "settings", "standard",
                         <<>>, F(<<"fetch", "settings">>), TRUE, FALSE),
   updateSettings |-> Op("mutation", "updateSettings", "isLoading", "settings", "data",
                         <<>>, F(<<"update", "settings">>), TRUE, FALSE)]

StorageConfigOps ==
  [refresh        |-> Op("refresh", "getStorageConfig", "isLoading", "storageConfig",
                         "absentOk", <<>>, F(<<"fetch", "storage", "config">>),
                         TRUE, FALSE),
   createOrUpdate |-> Op("mutation", "createStorageConfig", "isLoading",
                         "storageConfig", "data", <<>>,
                         F(<<"create/update", "storage", "config">>), TRUE, FALSE),
   update         |-> Op("mutation", "updateStorageConfig", "isLoading",
                         "storageConfig", "data", <<>>,
                         F(<<"update", "storage", "config">>), TRUE, FALSE),
   deleteConfig   |-> Op("mutation", "deleteStorageConfig", "isLoading",
                         "storageConfig", "clear", <<>>,
                         F(<<"delete", "storage", "config">>), TRUE, FALSE)]

RateLimitsOps ==
  [refreshConfig  |-> Op("refresh", "getRateLimitsConfig", "isLoadingConfig", "config",
                         "standard", <<>>,
                         F(<<"fetch", "rate", "limits", "config">>), TRUE, FALSE),
   refreshHistory |-> Op("refresh", "getRateLimitHistory", "isLoadingHistory",
                         "history", "standard", <<>>,
                         F(<<"fetch", "rate", "limit", "history">>), TRUE, FALSE)]

EntitiesOps ==
  [refreshEntities |-> Op("refresh", "getEntities", "isLoading", "entities",
                          "standard", <<>>, F(<<"fetch", "entities">>), FALSE, FALSE),
   getEntity       |-> Op("read", "getEntity", "isLoading", "currentEntity", "data",
                          <<>>, F(<<"get", "entity">>), TRUE, FALSE),
   createEntity    |-> Op("mutation", "createEntity", "isLoading", "-", "none",
                          <<"refreshEntities">>, F(<<"create", "entity">>),
                          FALSE, FALSE),
   updateEntity    |-> Op("mutation", "updateEntity", "isLoading", "-", "none",
                          <<"refreshEntities">>, F(<<"update", "entity">>),
                          TRUE, FALSE),
   deleteEntity    |-> Op("mutation", "deleteEntity", "isLoading", "-", "none",
                          <<"refreshEntities">>, F(<<"delete", "entity">>),
                          TRUE, FALSE),
   refreshMembers  |-> Op("refresh", "getEntityMembers", "isLoading", "members",
                          "standard", <<>>, F(<<"fetch", "members">>), TRUE, FALSE),
   updateMemberRole |-> Op("mutation", "updateEntityMemberRole", "isLoading", "-",
                          "none", <<"refreshMembers">>,
                          F(<<"update", "member", "role">>), TRUE, FALSE),
   removeMember    |-> Op("mutation", "removeEntityMember", "isLoading", "-", "none",
                          <<"refreshMembers">>, F(<<"remove", "member">>),
                          TRUE, FALSE),
   refreshInvitations |-> Op("refresh", "getEntityInvitations", "isLoading",
                          "invitations", "standard", <<>>,
                          F(<<"fetch", "invitations">>), TRUE, FALSE),
   createInvitation |-> Op("mutation", "createEntityInvitation", "isLoading", "-",
                          "none", <<"refreshInvitations">>,
                          F(<<"create", "invitation">>), TRUE, FALSE),
   cancelInvitation |-> Op("mutation", "cancelEntityInvitation", "isLoading", "-",
                          "none", <<"refreshInvitations">>,
                          F(<<"cancel", "invitation">>), TRUE, FALSE),
   refreshMyInvitations |-> Op("refresh", "getMyInvitations", "isLoading",
                          "myInvitations", "standard", <<>>,
                          F(<<"fetch", "my", "invitations">>), FALSE, FALSE),
   acceptInvitation |-> Op("mutation", "acceptInvitation", "isLoading", "-", "none",
                          <<"refreshMyInvitations", "refreshEntities">>,
                          F(<<"accept", "invitation">>), FALSE, FALSE),
   declineInvitation |-> Op("mutation", "declineInvitation", "isLoading", "-", "none",
                          <<"refreshMyInvitations">>,
                          F(<<"decline", "invitation">>), FALSE, FALSE)]

\* useAiExecute: execute stores response.data in `result`; getPrompt hands
\* its envelope back and stores nothing.
AiExecuteOps ==
  [execute   |-> Op("read", "executeAi", "isLoading", "result", "standard", <<>>,
                    <<"AI", "execution", "failed">>, FALSE, FALSE),
   getPrompt |-> Op("read", "getAiPrompt", "isLoading", "-", "none", <<>>,
                    F(<<"get", "prompt">>), FALSE, FALSE)]

\* The binding families exported by the hooks index.
Kinds == {"keys", "projects", "endpoints", "analytics", "settings", "entities",
          "storageConfig", "rateLimits"}

OpsOf(k) ==
  CASE k = "keys" -> KeysOps
    [] k = "projects" -> ProjectsOps
    [] k = "endpoints" -> EndpointsOps
    [] k = "analytics" -> AnalyticsOps
    [] k = "settings" -> SettingsOps
    [] k = "entities" -> EntitiesOps
    [] k = "storageConfig" -> StorageConfigOps
    [] k = "rateLimits" -> RateLimitsOps
    [] k = "aiExecute" -> AiExecuteOps

OpNames(k) == DOMAIN OpsOf(k)

\* The data fields and loading flags a binding holds (its useState cells).
Fields(k) == {OpsOf(k)[o].field : o \in OpNames(k)} \ {"-"}

Flags(k) == {OpsOf(k)[o].flag : o \in OpNames(k)}

\* Bindings that keep the filter params of the last refresh.
RetainsParams(k) == k \in {"projects", "endpoints"}

\* Initial value of a data field: [] for a collection, null for a record.
EmptyValue(field) ==
  IF field \in {"keys", "projects", "endpoints", "entities", "members",
                "invitations", "myInvitations"}
  THEN "[]" ELSE "null"

----------------------------------------------------------------------------
\* Caller inputs

Scopes == {"s1", "s2"}
Tokens == {"t1", "t2"}
NoScope == "-"

\* Filter params: undefined (none passed) or one of two filter objects;
\* "null" is the retained-params cell before any refresh and after reset.
NoParams == "undefined"
FilterParams == {NoParams, "pA", "pB"}

\* The scope / credential pairs a caller passes to an operation.
ArgsOf(d) ==
  IF d.scoped
  THEN {[scope |-> "s1", token |-> "t1"], [scope |-> "s2", token |-> "t2"]}
  ELSE {[scope |-> NoScope, token |-> t] : t \in Tokens}

ParamsOf(d) == IF d.filtered THEN FilterParams ELSE {NoParams}

\* lastParams ?? undefined
Coalesce(p) == IF p = "null" THEN NoParams ELSE p

\* The transport call a facade method issues.
Call(method, scope, token, params) ==
  [verb |-> FacadeVerb(method), method |-> method, scope |-> scope,
   token |-> token, params |-> params]

NoCall == [verb |-> "-", method |-> "-", scope |-> NoScope, token |-> "-",
           params |-> NoParams]

----------------------------------------------------------------------------
\* Hook bodies

\* Mutant: a catch block that always reports the default text.
ErrorMessage_Default(fr, fallback) == fallback

\* err instanceof Error ? err.message : '<fallback>'
ErrorMessage(fr, fallback) == IF fr.isError THEN fr.msg ELSE fallback

\* Mutant: a refresh that drops the payload of a successful envelope.
StandardRefresh_NoStore(d, fr, dat, err) ==
  IF ~fr.threw
  THEN IF fr.env.success /\ fr.env.data # NoData
       THEN [data |-> dat, error |-> err]
       ELSE [data |-> dat, error |-> Some(OrElse(fr.env.error, d.fallback))]
  ELSE [data |-> dat, error |-> Some(ErrorMessage(fr, d.fallback))]

\* Mutant: a refresh that tests response.success alone and stores whatever
\* data the envelope has.
StandardRefresh_NoDataTest(d, fr, dat, err) ==
  IF ~fr.threw
  THEN IF fr.env.success
       THEN [data |-> [dat EXCEPT ![d.field] = fr.env.data], error |-> err]
       ELSE [data |-> dat, error |-> Some(OrElse(fr.env.error, d.fallback))]
  ELSE [data |-> dat, error |-> Some(ErrorMessage(fr, d.fallback))]

\* try / catch of a refresh operation (useKeys.refresh and its like): the
\* data and error cells after the facade call has produced `fr`.
StandardRefresh(d, fr, dat, err) ==
  IF ~fr.threw
  THEN IF fr.env.success /\ fr.env.data # NoData
       THEN [data |-> [dat EXCEPT ![d.field] = fr.env.data], error |-> err]
       ELSE [data |-> dat, error |-> Some(OrElse(fr.env.error, d.fallback))]
  ELSE [data |-> dat, error |-> Some(ErrorMessage(fr, d.fallback))]

\* try / catch of useStorageConfig.refresh
StorageConfigRefresh(d, fr, dat, err) ==
  IF ~fr.threw
  THEN IF fr.env.success /\ fr.env.data # NoData
       THEN [data |-> [dat EXCEPT ![d.field] = fr.env.data], error |-> err]
       ELSE [data |-> [dat EXCEPT ![d.field] = "null"],
             error |-> IF Truthy(fr.env.error)
                          /\ ~Includes(fr.env.error[1], <<"not", "found">>)
                       THEN Some(fr.env.error[1]) ELSE err]
  ELSE LET errorMessage == ErrorMessage(fr, d.fallback) IN
       IF Includes(errorMessage, <<"not", "found">>)
          \/ Includes(errorMessage, <<"404">>)
       THEN [data |-> [dat EXCEPT ![d.field] = "null"], error |-> err]
       ELSE [data |-> dat, error |-> Some(errorMessage)]

RefreshApply(d, fr, dat, err) ==
  IF d.store = "absentOk" THEN StorageConfigRefresh(d, fr, dat, err)
  ELSE StandardRefresh(d, fr, dat, err)

\* Mutant: a read or a mutation that keeps the data of a successful envelope
\* in every field the binding holds.
CallApply_Everywhere(d, env, dat) ==
  IF env.success /\ env.data # NoData THEN [f \in DOMAIN dat |-> env.data]
  ELSE dat

\* Mutant: a mutation that never touches the held record.
CallApply_Ignore(d, env, dat) == dat

\* What a single-record read or a mutation does to the held data with the
\* envelope it got: nothing (useKeys.createKey), store response.data
\* (useSettings.updateSettings) or clear the record (deleteConfig).
CallApply(d, env, dat) ==
  CASE d.store = "data" /\ env.success /\ env.data # NoData
         -> [dat EXCEPT ![d.field] = env.data]
    [] d.store = "clear" /\ env.success -> [dat EXCEPT ![d.field] = "null"]
    [] OTHER -> dat

\* Mutant: a read or a mutation that reports an unsuccessful envelope in
\* the error cell, as a refresh does.
CallError_Report(d, env, err) ==
  IF env.success THEN err ELSE Some(OrElse(env.error, d.fallback))

\* The error cell after a single-record read or a mutation got an envelope:
\* the try block has no setError, whatever the envelope says.
CallError(d, env, err) == err

\* The failure envelope a read or a mutation synthesizes in its catch block.
FailureEnvelope(errorMessage) == Env(FALSE, NoData, Some(errorMessage), NULL)

\* Mutant: a mutation that re-reads whatever its envelope reports.
FollowupsOf_Always(d, env) == d.followups

\* The follow-up refreshes a mutation awaits once its envelope reports success.
FollowupsOf(d, env) == IF env.success THEN d.followups ELSE <<>>

----------------------------------------------------------------------------
VARIABLES
  kind,        \* the binding family of the instance
  data,        \* held data, per data field
  loading,     \* loading flags
  error,       \* the error cell: NULL or Some(text)
  lastParams,  \* retained filter params (projects, endpoints)
  closure,     \* the lastParams closed over by the callbacks of the last render
  ops,         \* operations dispatched and not yet settled
  nOps,        \* number of operations invoked so far
  last,        \* the step that led to the current state
  queryClient  \* the TanStack QueryClient shared by the provider bindings

vars == <<kind, data, loading, error, lastParams, closure, ops, nOps, last,
          queryClient>>

\* `last`: the step just taken.
\*   ev       "init", "invoke", "settle", "resume", "clearError" or "reset"
\*   id, op   the operation the step belongs to
\*   phase    where that operation stood before the step
\*   rop      the refresh whose try / catch / finally ran in the step ("-": none)
\*   out      the transport outcome the step consumed
\*   done     the operation's promise resolved in the step, with envelope `ret`
\*   lone     no other operation and no reset overlapped the operation
\*   data0    the data held when the (lone) call that settled was dispatched
\*   started  the transport call dispatched in the step
\*   rejected the operation's promise rejected in the step
\*   reason   the message of the Error it rejected with
\*   sent     the requests handed to the transport in the step, in order
\*   args     the arguments of the facade or helper call made in the step
\*   result   the string a helper call returned
Event(ev, id, op, phase, rop, out, done, ret, lone, data0, started) ==
  [ev |-> ev, id |-> id, op |-> op, phase |-> phase, rop |-> rop, out |-> out,
   done |-> done, ret |-> ret, lone |-> lone, data0 |-> data0,
   started |-> started, rejected |-> FALSE, reason |-> NULL,
   sent |-> <<>>, args |-> <<>>, result |-> <<>>]

\* Mutant: a catch block that reads err.message without the instanceof test
\* and so throws on a thrown value that is no object.
CatchCompletes_Unguarded(fr) == fr.isError

\* catch (err) { ... }: the block handles every thrown value and completes.
CatchCompletes(fr) == TRUE

\* The step of an operation whose exception escaped its catch block.
Escaped(fr, e) ==
  IF fr.threw /\ ~CatchCompletes(fr)
  THEN [e EXCEPT !.rejected = TRUE, !.ret = NoEnv]
  ELSE e

\* The bindings built on useState use no QueryClient.
NoQueryClient == [observers |-> <<>>, queries |-> <<>>]

\* useState initial values of a binding of family k
InitialData(k) == [f \in Fields(k) |-> EmptyValue(f)]

\* Bookkeeping: the data held when a lone operation was dispatched; no
\* value is kept for an operation that overlaps another or a reset.
Unknown(k) == [f \in Fields(k) |-> "?"]

Overlapped(x) == [x EXCEPT !.lone = FALSE, !.data0 = Unknown(kind)]

\* Mutant: loading flags that start out true.
InitialLoading_Busy(k) == [g \in Flags(k) |-> TRUE]

InitialLoading(k) == [g \in Flags(k) |-> FALSE]

Init ==
  /\ kind \in Kinds
  /\ data = InitialData(kind)
  /\ loading = InitialLoading(kind)
  /\ error = NULL
  /\ lastParams = "null"
  /\ closure = "null"
  /\ queryClient = NoQueryClient
  /\ ops = {}
  /\ nOps = 0
  /\ last = Event("init", 0, "-", "-", "-", NoOutcome, FALSE, NoEnv, FALSE,
                  Unknown(kind), NoCall)

OpById(id) == CHOOSE o \in ops : o.id = id

\* setIsLoading(true) at the head of an operation
DispatchLoading(flag) == [loading EXCEPT ![flag] = TRUE]

\* Mutant: an operation that keeps the previous error at dispatch.
DispatchError_Keep == error

\* setError(null) at the head of an operation
DispatchError == NULL

\* Mutant: a settlement that clears every loading flag of the binding.
FinallyLoading_All(flag) == [g \in DOMAIN loading |-> FALSE]

\* Mutant: a settlement that leaves the loading flag set.
FinallyLoading_Skip(flag) == loading

\* finally { setIsLoading(false) }
FinallyLoading(flag) == [loading EXCEPT ![flag] = FALSE]

Desc(o) == OpsOf(kind)[o]

\* setIsLoading(true); setError(null) [; setLastParams(params)] followed by
\* the facade call: the synchronous prefix of every operation.
Invoke(o, a, p) ==
  LET d == Desc(o)
      rec == [id |-> nOps + 1, op |-> o, scope |-> a.scope, token |-> a.token,
              captured |-> closure, phase |-> "main", fidx |-> 0,
              resp |-> NoEnv, lone |-> (ops = {}),
              data0 |-> IF ops = {} THEN data ELSE Unknown(kind),
              call |-> Call(d.method, a.scope, a.token, p)]
  IN  /\ loading' = DispatchLoading(d.flag)
      /\ error' = DispatchError
      /\ lastParams' = IF d.cls = "refresh" /\ RetainsParams(kind)
                       THEN p ELSE lastParams
      /\ ops' = {Overlapped(x) : x \in ops} \cup {rec}
      /\ nOps' = nOps + 1
      /\ last' = Event("invoke", rec.id, o, "-", "-", NoOutcome, FALSE, NoEnv,
                       rec.lone, rec.data0, rec.call)
      /\ UNCHANGED <<queryClient, kind, closure, data>>

\* A mutation calls its i-th follow-up refresh: the synchronous prefix of
\* that refresh, with the filter params the mutation closed over.
StartFollowup(rec, i, env, dat) ==
  LET d == Desc(rec.op)
      r == Desc(d.followups[i])
      p == IF RetainsParams(kind) THEN Coalesce(rec.captured) ELSE NoParams
      c == Call(r.method, IF r.scoped THEN rec.scope ELSE NoScope, rec.token, p)
      rec2 == [rec EXCEPT !.phase = "followup", !.fidx = i, !.resp = env,
                          !.data0 = IF rec.lone THEN dat ELSE Unknown(kind),
                          !.call = c]
  IN  /\ data' = dat
      /\ loading' = DispatchLoading(r.flag)
      /\ error' = DispatchError
      /\ lastParams' = IF RetainsParams(kind) THEN p ELSE lastParams
      /\ ops' = (ops \ {rec}) \cup {rec2}
      /\ UNCHANGED <<queryClient, kind, closure, nOps>>

\* The transport call of a refresh invoked by the caller settles: try /
\* catch / finally of the refresh, after which its promise resolves.
SettleRefresh(id, out) ==
  LET rec == OpById(id)
      d == Desc(rec.op)
      fr == FacadeResult(out, d.method)
      post == RefreshApply(d, fr, data, error)
  IN  /\ rec.phase = "main"
      /\ d.cls = "refresh"
      /\ data' = post.data
      /\ error' = post.error
      /\ loading' = FinallyLoading(d.flag)
      /\ ops' = ops \ {rec}
      /\ last' = Escaped(fr, Event("settle", id, rec.op, "main", rec.op, out,
                                   TRUE, NoEnv, rec.lone, rec.data0, NoCall))
      /\ UNCHANGED <<queryClient, kind, closure, lastParams, nOps>>

\* The transport call of a single-record read or of a mutation settles.
SettleCall(id, out) ==
  LET rec == OpById(id)
      d == Desc(rec.op)
      fr == FacadeResult(out, d.method)
  IN  /\ rec.phase = "main"
      /\ d.cls # "refresh"
      /\ IF fr.threw
         THEN LET errorMessage == ErrorMessage(fr, d.fallback) IN
              /\ error' = Some(errorMessage)
              /\ loading' = FinallyLoading(d.flag)
              /\ ops' = ops \ {rec}
              /\ last' = Escaped(fr, Event("settle", id, rec.op, "main", "-", out,
                                           TRUE, FailureEnvelope(errorMessage),
                                           rec.lone, rec.data0, NoCall))
              /\ UNCHANGED <<queryClient, kind, closure, data, lastParams, nOps>>
         ELSE IF FollowupsOf(d, fr.env) # <<>>
              THEN /\ StartFollowup(rec, 1, fr.env, CallApply(d, fr.env, data))
                   /\ last' = Event("settle", id, rec.op, "main", "-", out, FALSE,
                                    NoEnv, rec.lone, rec.data0,
                                    (CHOOSE x \in ops' : x.id = id).call)
              ELSE /\ data' = CallApply(d, fr.env, data)
                   /\ error' = CallError(d, fr.env, error)
                   /\ loading' = FinallyLoading(d.flag)
                   /\ ops' = ops \ {rec}
                   /\ last' = Event("settle", id, rec.op, "main", "-", out, TRUE,
                                    fr.env, rec.lone, rec.data0, NoCall)
                   /\ UNCHANGED <<queryClient, kind, closure, lastParams, nOps>>

\* The transport call of a follow-up refresh settles: try / catch / finally
\* of the refresh; the awaiting mutation has not resumed yet.
SettleFollowup(id, out) ==
  LET rec == OpById(id)
      d == Desc(rec.op)
      r == Desc(d.followups[rec.fidx])
      fr == FacadeResult(out, r.method)
      post == RefreshApply(r, fr, data, error)
  IN  /\ rec.phase = "followup"
      /\ data' = post.data
      /\ error' = post.error
      /\ loading' = FinallyLoading(r.flag)
      /\ ops' = (ops \ {rec}) \cup {[rec EXCEPT !.phase = "resume", !.call = NoCall]}
      /\ last' = Event("settle", id, rec.op, "followup", d.followups[rec.fidx],
                       out, FALSE, NoEnv, rec.lone, rec.data0, NoCall)
      /\ UNCHANGED <<queryClient, kind, closure, lastParams, nOps>>

\* Mutant: a mutation that reports the failure its follow-up refresh left in
\* the error cell.
MutationResult_Failure(rec) ==
  IF error # NULL THEN FailureEnvelope(error[1]) ELSE rec.resp

\* return response: the envelope a mutation hands back after its follow-ups
MutationResult(rec) == rec.resp

\* Mutant: a mutation that gives up its remaining refreshes once one of them
\* has left an error.
MoreFollowups_StopOnError(rec) ==
  rec.fidx < Len(Desc(rec.op).followups) /\ error = NULL

\* The awaited refresh is followed by another `await refresh...(...)`
\* statement, which runs whatever the first one did.
MoreFollowups(rec) == rec.fidx < Len(Desc(rec.op).followups)

\* A mutation resumes after `await refresh(...)`: it awaits its next
\* follow-up, or returns its own envelope and runs its finally block.
Resume(id) ==
  LET rec == OpById(id)
      d == Desc(rec.op)
  IN  /\ rec.phase = "resume"
      /\ IF MoreFollowups(rec)
         THEN /\ StartFollowup(rec, rec.fidx + 1, rec.resp, data)
              /\ last' = Event("resume", id, rec.op, "resume", "-", NoOutcome, FALSE,
                               NoEnv, rec.lone, rec.data0,
                               (CHOOSE x \in ops' : x.id = id).call)
         ELSE /\ loading' = FinallyLoading(d.flag)
              /\ ops' = ops \ {rec}
              /\ last' = Event("resume", id, rec.op, "resume", "-", NoOutcome, TRUE,
                               MutationResult(rec), rec.lone, rec.data0, NoCall)
              /\ UNCHANGED <<queryClient, kind, closure, data, error, lastParams, nOps>>

\* The component renders again after a change of lastParams: useCallback
\* re-creates the mutations, which close over the new value.  Until then the
\* caller holds the callbacks of the previous render.
Render ==
  /\ closure # lastParams
  /\ closure' = lastParams
  /\ last' = Event("render", 0, "-", "-", "-", NoOutcome, FALSE, NoEnv, FALSE,
                   Unknown(kind), NoCall)
  /\ UNCHANGED <<queryClient, kind, data, loading, error, lastParams, ops, nOps>>

\* Mutant: a clearError that also empties the held data.
ClearError_Wipes ==
  /\ error' = NULL
  /\ data' = InitialData(kind)
  /\ last' = Event("clearError", 0, "-", "-", "-", NoOutcome, FALSE, NoEnv, FALSE,
                   Unknown(kind), NoCall)
  /\ UNCHANGED <<queryClient, kind, closure, loading, lastParams, ops, nOps>>

\* clearError: setError(null)
ClearError ==
  /\ error' = NULL
  /\ last' = Event("clearError", 0, "-", "-", "-", NoOutcome, FALSE, NoEnv, FALSE,
                   Unknown(kind), NoCall)
  /\ UNCHANGED <<queryClient, kind, closure, data, loading, lastParams, ops, nOps>>

\* Mutant: a reset that also abandons the requests in flight.
Reset_Cancels ==
  /\ data' = InitialData(kind)
  /\ error' = NULL
  /\ loading' = InitialLoading(kind)
  /\ lastParams' = "null"
  /\ ops' = {}
  /\ last' = Event("reset", 0, "-", "-", "-", NoOutcome, FALSE, NoEnv, FALSE,
                   Unknown(kind), NoCall)
  /\ UNCHANGED <<queryClient, kind, closure, nOps>>

\* reset: every cell back to its initial value
Reset ==
  /\ data' = InitialData(kind)
  /\ error' = NULL
  /\ loading' = InitialLoading(kind)
  /\ lastParams' = "null"
  /\ ops' = {Overlapped(x) : x \in ops}
  /\ last' = Event("reset", 0, "-", "-", "-", NoOutcome, FALSE, NoEnv, FALSE,
                   Unknown(kind), NoCall)
  /\ UNCHANGED <<queryClient, kind, closure, nOps>>

\* The outcomes drawn while operations overlap: one of each kind.
OverlapOutcomes ==
  {Resolve(TRUE, TRUE, Env(TRUE, d, NULL, NULL)) : d \in Payloads}
  \cup {Resolve(TRUE, TRUE, Env(FALSE, NoData, Some(ServerError), NULL)),
        Throw(TRUE, NetworkError)}

OverlapArgs(d) == {CHOOSE a \in ArgsOf(d) : a.token = "t1"}

\* Operations invoked one at a time, with every input and transport outcome.
Next ==
  \/ \E o \in OpNames(kind) :
       \E a \in ArgsOf(Desc(o)), p \in ParamsOf(Desc(o)) :
          nOps < MaxOps /\ ops = {} /\ Invoke(o, a, p)
  \/ \E x \in ops, out \in TransportOutcomes : SettleRefresh(x.id, out)
  \/ \E x \in ops, out \in TransportOutcomes : SettleCall(x.id, out)
  \/ \E x \in ops, out \in TransportOutcomes : SettleFollowup(x.id, out)
  \/ \E x \in ops : Resume(x.id)
  \/ ClearError
  \/ Reset
  \/ Render

Spec == Init /\ [][Next]_vars

\* Operations invoked at any moment, overlapping those in flight.
NextOverlap ==
  \/ \E o \in OpNames(kind) :
       \E a \in OverlapArgs(Desc(o)), p \in ParamsOf(Desc(o)) :
          nOps < MaxOverlap /\ Invoke(o, a, p)
  \/ \E x \in ops, out \in OverlapOutcomes : SettleRefresh(x.id, out)
  \/ \E x \in ops, out \in OverlapOutcomes : SettleCall(x.id, out)
  \/ \E x \in ops, out \in OverlapOutcomes : SettleFollowup(x.id, out)
  \/ \E x \in ops : Resume(x.id)
  \/ ClearError
  \/ Reset
  \/ Render

SpecOverlap == Init /\ [][NextOverlap]_vars

TypeOK ==
  /\ kind \in Kinds
  /\ DOMAIN data = Fields(kind)
  /\ DOMAIN loading = Flags(kind)
  /\ \A g \in Flags(kind) : loading[g] \in BOOLEAN
  /\ nOps \in Nat
  /\ Cardinality(ops) <= nOps

----------------------------------------------------------------------------
\* Strings of a request.  A URL, a header value or a query string is a
\* sequence of characters; a run of letters and digits that no operation
\* looks into ("api", "host") and an escape ("%2F") are written as one
\* element.

\* JavaScript values handed to the facade: the type tag t, the number n (a
\* boolean is 1 or 0) and the characters s of a string.  An object is {}
\* (n = 0) or { text: '<s>' } (n = 1).
JsUndefined == [t |-> "undefined", n |-> 0, s |-> <<>>]

JsNull == [t |-> "null", n |-> 0, s |-> <<>>]

JsNumber(n) == [t |-> "number", n |-> n, s |-> <<>>]

JsBoolean(b) == [t |-> "boolean", n |-> IF b THEN 1 ELSE 0, s |-> <<>>]

JsString(s) == [t |-> "string", n |-> 0, s |-> s]

JsObject(n, s) == [t |-> "object", n |-> n, s |-> s]

\* The condition `v ? ... : ...`
JsTruthy(v) ==
  CASE v.t \in {"undefined", "null"} -> FALSE
    [] v.t = "number" -> v.n # 0
    [] v.t = "boolean" -> v.n = 1
    [] v.t = "string" -> v.s # <<>>
    [] OTHER -> TRUE

DigitChars == <<"0", "1", "2", "3", "4", "5", "6", "7", "8", "9">>

RECURSIVE Digits(_)
Digits(n) ==
  IF n < 10 THEN <<DigitChars[n + 1]>>
  ELSE Digits(n \div 10) \o <<DigitChars[(n % 10) + 1]>>

\* String(value)
String(v) ==
  CASE v.t = "string" -> v.s
    [] v.t = "number" -> Digits(v.n)
    [] v.t = "boolean" -> IF v.n = 1 THEN <<"true">> ELSE <<"false">>
    [] v.t = "object" -> <<"[", "object", " ", "Object", "]">>
    [] OTHER -> <<v.t>>

\* JSON.stringify(value); the strings drawn hold no quote and no backslash.
JSONstringify(v) ==
  CASE v.t = "undefined" -> JsUndefined
    [] v.t = "string" -> JsString(<<"\"">> \o v.s \o <<"\"">>)
    [] v.t = "object" /\ v.n = 0 -> JsString(<<"{", "}">>)
    [] v.t = "object" ->
         JsString(<<"{", "\"", "text", "\"", ":", "\"">> \o v.s \o <<"\"", "}">>)
    [] OTHER -> JsString(String(v))

\* The escape of a character outside letters, digits, '-', '_' and '.'; a
\* run of those is its own escape.
PercentCode(c) ==
  CASE c = "/" -> "%2F"
    [] c = " " -> "%20"
    [] c = "%" -> "%25"
    [] c = "?" -> "%3F"
    [] c = "&" -> "%26"
    [] c = "=" -> "%3D"
    [] c = "#" -> "%23"
    [] c = "+" -> "%2B"
    [] c = ":" -> "%3A"
    [] c = "\"" -> "%22"
    [] c = "{" -> "%7B"
    [] c = "}" -> "%7D"
    [] c = "[" -> "%5B"
    [] c = "]" -> "%5D"
    [] c = "~" -> "%7E"
    [] OTHER -> c

\* Mutant: path segments placed in the URL as they are.
encodeURIComponent_Raw(s) == s

\* encodeURIComponent: every character but letters, digits and
\* - _ . ! ~ * ' ( ) is escaped.
encodeURIComponent(s) ==
  [i \in 1..Len(s) |-> IF s[i] = "~" THEN s[i] ELSE PercentCode(s[i])]

\* The serialization URLSearchParams.toString applies to a name or a value:
\* a space becomes '+', every character but letters, digits and * - . _ is
\* escaped.
FormEncode(s) ==
  [i \in 1..Len(s) |-> IF s[i] = " " THEN "+" ELSE PercentCode(s[i])]

\* createAuthHeaders(token)
createAuthHeaders(token) ==
  [h \in {"Content-Type", "Accept", "Authorization"} |->
     IF h = "Authorization" THEN <<"Bearer", " ">> \o token
     ELSE <<"application/json">>]

\* createHeaders()
createHeaders == [h \in {"Content-Type", "Accept"} |-> <<"application/json">>]

\* buildUrl: baseUrl.replace(/\/$/, '') followed by the path
buildUrl(baseUrl, path) ==
  LET cleanBase == IF baseUrl # <<>> /\ baseUrl[Len(baseUrl)] = "/"
                   THEN SubSeq(baseUrl, 1, Len(baseUrl) - 1)
                   ELSE baseUrl
  IN  cleanBase \o path

\* value !== undefined && value !== null
Appended(entry) == entry.value.t \notin {"undefined", "null"}

RECURSIVE JoinAmp(_)
JoinAmp(pairs) ==
  IF pairs = <<>> THEN <<>>
  ELSE IF Len(pairs) = 1 THEN pairs[1]
  ELSE pairs[1] \o <<"&">> \o JoinAmp(Tail(pairs))

\* Mutant: null and undefined entries are rendered too.
buildQueryString_KeepAll(params) ==
  LET pairs == [i \in 1..Len(params) |->
                  FormEncode(params[i].key) \o <<"=">>
                    \o FormEncode(String(params[i].value))]
      queryString == JoinAmp(pairs)
  IN  IF queryString # <<>> THEN <<"?">> \o queryString ELSE <<>>

\* buildQueryString: the entries of params, in enumeration order, as a
\* sequence of [key, value]
buildQueryString(params) ==
  LET kept == SelectSeq(params, Appended)
      pairs == [i \in 1..Len(kept) |->
                  FormEncode(kept[i].key) \o <<"=">>
                    \o FormEncode(String(kept[i].value))]
      queryString == JoinAmp(pairs)
  IN  IF queryString # <<>> THEN <<"?">> \o queryString ELSE <<>>

----------------------------------------------------------------------------
\* The request a facade method hands to the transport.

\* The arguments of a facade method, with the configuration of the client:
\* `params` is [given, entries] (given = FALSE: no params object passed);
\* `method` is the selector of executeAi.
Args(baseUrl, userId, projectId, id, token, params, projectName, endpointName, input, method, body) ==
  [baseUrl |-> baseUrl, userId |-> userId, projectId |-> projectId, id |-> id,
   token |-> token, params |-> params, projectName |-> projectName,
   endpointName |-> endpointName, input |-> input, method |-> method,
   data |-> body]

\* executeAi: method === 'GET' ? executeAiGet : executeAiPost, the selector
\* defaulting to 'POST'
FacadeTarget(method, a) ==
  IF method = "executeAi"
  THEN LET selector == IF a.method = JsUndefined THEN JsString(<<"POST">>)
                       ELSE a.method
       IN  IF selector = JsString(<<"GET">>) THEN "executeAiGet"
           ELSE "executeAiPost"
  ELSE method

UserPath(a) ==
  <<"/", "api", "/", "v1", "/", "users", "/">> \o encodeURIComponent(a.userId)

\* The path template of each method.
FacadePath(method, a) ==
  CASE method \in {"getKeys", "createKey"} -> UserPath(a) \o <<"/", "keys">>
    [] method \in {"getKey", "updateKey", "deleteKey"} ->
         UserPath(a) \o <<"/", "keys", "/">> \o encodeURIComponent(a.id)
    [] method \in {"getProjects", "createProject"} ->
         UserPath(a) \o <<"/", "projects">>
    [] method \in {"getProject", "updateProject", "deleteProject"} ->
         UserPath(a) \o <<"/", "projects", "/">> \o encodeURIComponent(a.projectId)
    [] method \in {"getEndpoints", "createEndpoint"} ->
         UserPath(a) \o <<"/", "projects", "/">> \o encodeURIComponent(a.projectId)
           \o <<"/", "endpoints">>
    [] method \in {"getEndpoint", "updateEndpoint", "deleteEndpoint"} ->
         UserPath(a) \o <<"/", "projects", "/">> \o encodeURIComponent(a.projectId)
           \o <<"/", "endpoints", "/">> \o encodeURIComponent(a.id)
    [] method = "getAnalytics" -> UserPath(a) \o <<"/", "analytics">>
    [] method \in {"executeAiGet", "executeAiPost"} ->
         <<"/", "api", "/", "v1", "/", "ai", "/">>
           \o encodeURIComponent(a.projectName) \o <<"/">>
           \o encodeURIComponent(a.endpointName)

\* params ? buildQueryString(params) : '' of the filtered reads, and
\* input ? buildQueryString({ input: JSON.stringify(input) }) : '' of
\* executeAiGet
FacadeQuery(method, a) ==
  CASE method \in {"getProjects", "getEndpoints", "getAnalytics"} ->
         IF a.params.given THEN buildQueryString(a.params.entries) ELSE <<>>
    [] method = "executeAiGet" ->
         IF JsTruthy(a.input)
         THEN buildQueryString(<<[key |-> <<"input">>,
                                  value |-> JSONstringify(a.input)]>>)
         ELSE <<>>
    [] OTHER -> <<>>

\* Mutant: every method sends the credential.
FacadeHeaders_AlwaysAuth(method, a) == createAuthHeaders(a.token)

FacadeHeaders(method, a) ==
  IF method \in {"executeAiGet", "executeAiPost"} THEN createHeaders
  ELSE createAuthHeaders(a.token)

\* The body argument: the caller's data of a create or an update, { input }
\* of executeAiPost, none of a get or a delete.
FacadeBody(method, a) ==
  CASE method = "executeAiPost" -> [shape |-> "{ input }", value |-> a.input]
    [] FacadeVerb(method) \in {"post", "put"} ->
         [shape |-> "value", value |-> a.data]
    [] OTHER -> [shape |-> "none", value |-> JsUndefined]

FacadeRequest(method, a) ==
  [verb |-> FacadeVerb(method),
   url |-> buildUrl(a.baseUrl, FacadePath(method, a) \o FacadeQuery(method, a)),
   headers |-> FacadeHeaders(method, a),
   body |-> FacadeBody(method, a)]

\* Mutant: a facade that calls the transport again after an exception.
FacadeAttempts_Retry(out) == IF out.t = "throw" THEN 2 ELSE 1

\* The transport calls of one method invocation: the single
\* `await this.networkClient.<verb>(...)` of the method body.
FacadeAttempts(out) == 1

\* Caller inputs of the facade
HostUrl == <<"https:", "/", "/", "host">>

PlainId == <<"u", "1">>

DefaultArgs ==
  Args(HostUrl, PlainId, PlainId, PlainId, <<"tk">>,
       [given |-> FALSE, entries |-> <<>>], PlainId, PlainId,
       JsObject(0, <<>>), JsUndefined, JsObject(1, <<"x">>))

----------------------------------------------------------------------------
\* The facade on its own: one method called on one transport outcome.

\* The methods of ShapeshyftClient whose bodies are at hand.
FacadeMethods ==
  {"getKeys", "getKey", "createKey", "updateKey", "deleteKey", "getProjects",
   "getProject", "createProject", "updateProject", "deleteProject",
   "getEndpoints", "getEndpoint", "createEndpoint", "updateEndpoint",
   "deleteEndpoint", "getAnalytics", "executeAiGet", "executeAiPost"}

\* Transport outcomes with every mix of success, data, error and message.
FacadeOutcomes ==
  {Resolve(ok, TRUE, Env(sc, d, e, m)) :
      ok \in BOOLEAN, sc \in BOOLEAN, d \in {NoData, "d1"},
      e \in {NULL, Some(EmptyText), Some(ServerError), Some(NotFoundCap)},
      m \in {NULL, Some(EmptyText), Some(SomeMessage)}}
  \cup {Resolve(ok, FALSE, NoEnv) : ok \in BOOLEAN}
  \cup {Throw(TRUE, NetworkError), Throw(FALSE, EmptyText)}

\* A facade method called with arguments `a` on a transport that answers
\* `out`: const headers = ...; await this.networkClient.get(buildUrl(...));
\* if (!response.ok || !response.data) throw handleApiError(...);
\* return response.data
FacadeCall(method, a, out) ==
  LET target == FacadeTarget(method, a)
      fr == FacadeResult(out, target)
      e == Event("facade", 0, method, "-", "-", out, TRUE,
                 IF fr.threw THEN NoEnv ELSE fr.env, FALSE, Unknown(kind), NoCall)
  IN  /\ last.ev = "init"
      /\ last' = [e EXCEPT !.rejected = fr.threw,
                           !.reason = IF fr.threw /\ fr.isError
                                      THEN Some(fr.msg) ELSE NULL,
                           !.sent = [i \in 1..FacadeAttempts(out) |->
                                       FacadeRequest(target, a)],
                           !.args = a]
      /\ UNCHANGED <<queryClient, kind, closure, data, loading, error, lastParams, ops, nOps>>

NextFacade ==
  /\ last.ev = "init"
  /\ \E method \in FacadeMethods, out \in FacadeOutcomes :
        FacadeCall(method, DefaultArgs, out)

SpecFacade == Init /\ [][NextFacade]_vars

----------------------------------------------------------------------------
\* The facade and its helpers on drawn inputs: one call per behaviour.

BaseUrls == {HostUrl, HostUrl \o <<"/">>, HostUrl \o <<"/", "/">>}

Ids == {PlainId, <<"a", "/", "b">>, <<"a", " ", "b">>, <<"%", "2F", "~">>}

AuthTokens == {<<"tk">>, <<>>}

Entry(k, v) == [key |-> <<k>>, value |-> v]

\* Params objects, as the sequence of their entries in enumeration order.
ParamObjects ==
  {<<>>,
   <<Entry("is_active", JsString(<<"true">>))>>,
   <<Entry("page", JsNumber(1)), Entry("limit", JsNumber(10))>>,
   <<Entry("foo", JsString(<<"bar">>)), Entry("baz", JsNull)>>,
   <<Entry("a", JsUndefined), Entry("b", JsNull)>>,
   <<Entry("active", JsBoolean(TRUE)), Entry("deleted", JsBoolean(FALSE))>>,
   <<Entry("q", JsString(<<"a", " ", "b">>)),
     Entry("tag", JsString(<<"x", "&", "y", "=", "z">>))>>,
   <<Entry("n", JsNull), Entry("empty", JsString(<<>>)),
     Entry("zero", JsNumber(0))>>}

NoParamsGiven == [given |-> FALSE, entries |-> <<>>]

QueryParams == {NoParamsGiven} \cup {[given |-> TRUE, entries |-> q] : q \in ParamObjects}

Inputs ==
  {JsUndefined, JsNull, JsNumber(0), JsNumber(7), JsString(<<>>),
   JsString(<<"h", "i">>), JsBoolean(FALSE), JsObject(0, <<>>),
   JsObject(1, <<"a", "/", "b">>)}

Selectors == {JsUndefined, JsString(<<"GET">>), JsString(<<"POST">>)}

\* One transport outcome of each kind: success, failure, exception.
RequestOutcomes ==
  {Resolve(TRUE, TRUE, Env(TRUE, "d1", NULL, NULL)),
   Resolve(FALSE, TRUE, Env(FALSE, NoData, Some(ServerError), NULL)),
   Throw(TRUE, NetworkError)}

RequestMethods == FacadeMethods \cup {"executeAi"}

\* The arguments drawn for a method: those its body reads vary.
RequestArgs(method) ==
  IF method \in {"executeAiGet", "executeAiPost", "executeAi"}
  THEN {Args(b, PlainId, PlainId, PlainId, <<"tk">>, NoParamsGiven, pn, en, i, m,
             JsUndefined) :
          b \in BaseUrls, pn \in Ids, en \in Ids, i \in Inputs,
          m \in (IF method = "executeAi" THEN Selectors ELSE {JsUndefined})}
  ELSE {Args(b, u, pj, id, t, q, PlainId, PlainId, JsUndefined, JsUndefined,
             JsObject(1, <<"x">>)) :
          b \in BaseUrls, u \in Ids,
          pj \in (IF method \in {"getProject", "updateProject", "deleteProject",
                                 "getEndpoints", "getEndpoint", "createEndpoint",
                                 "updateEndpoint", "deleteEndpoint"}
                  THEN Ids ELSE {PlainId}),
          id \in (IF method \in {"getKey", "updateKey", "deleteKey", "getEndpoint",
                                 "updateEndpoint", "deleteEndpoint"}
                  THEN Ids ELSE {PlainId}),
          t \in AuthTokens,
          q \in (IF method \in {"getProjects", "getEndpoints", "getAnalytics"}
                 THEN QueryParams ELSE {NoParamsGiven})}

UrlBases == BaseUrls \cup {<<>>, <<"/">>, <<"h", "/", "p">>, <<"h", "/", "p", "/">>}

UrlPaths == {<<>>, <<"/">>, <<"/", "api">>, <<"api">>, <<"/", "api", "/">>}

\* buildUrl applied to a base address and a path
CallBuildUrl(baseUrl, path) ==
  /\ last.ev = "init"
  /\ last' = [Event("buildUrl", 0, "-", "-", "-", NoOutcome, FALSE, NoEnv, FALSE,
                    Unknown(kind), NoCall)
                EXCEPT !.args = [baseUrl |-> baseUrl, path |-> path],
                       !.result = buildUrl(baseUrl, path)]
  /\ UNCHANGED <<queryClient, kind, closure, data, loading, error, lastParams, ops, nOps>>

\* buildQueryString applied to a params object
CallBuildQueryString(params) ==
  /\ last.ev = "init"
  /\ last' = [Event("buildQueryString", 0, "-", "-", "-", NoOutcome, FALSE, NoEnv,
                    FALSE, Unknown(kind), NoCall)
                EXCEPT !.args = [params |-> params],
                       !.result = buildQueryString(params)]
  /\ UNCHANGED <<queryClient, kind, closure, data, loading, error, lastParams, ops, nOps>>

NextRequest ==
  \/ /\ last.ev = "init"
     /\ \E method \in RequestMethods :
          \E a \in RequestArgs(method), out \in RequestOutcomes :
             FacadeCall(method, a, out)
  \/ /\ last.ev = "init"
     /\ \E baseUrl \in UrlBases, path \in UrlPaths : CallBuildUrl(baseUrl, path)
  \/ /\ last.ev = "init"
     /\ \E params \in ParamObjects : CallBuildQueryString(params)

SpecRequest == Init /\ [][NextRequest]_vars

----------------------------------------------------------------------------
\* useAiExecute over the facade

\* The arguments of execute; method is the selector, undefined when omitted.
HookArgs ==
  {[organizationPath |-> o, projectName |-> p, endpointName |-> e, input |-> i,
    method |-> m] :
      o \in {<<"my-org">>, <<"a", "/", "b">>},
      p \in {<<"my-project">>, <<"a", " ", "b">>},
      e \in {<<"summarize">>, <<"GET">>},
      i \in Inputs, m \in Selectors}

\* client.executeAi(organizationPath, projectName, endpointName, input,
\* method, apiKey) against executeAi(projectName, endpointName, input,
\* method = 'POST'): the arguments bind by position, the fifth and the sixth
\* have no parameter.
ExecuteAiArgs(h) ==
  Args(HostUrl, PlainId, PlainId, PlainId, <<"tk">>, NoParamsGiven,
       h.organizationPath, h.projectName, JsString(h.endpointName), h.input,
       JsUndefined)

\* execute: setIsLoading(true); setError(null); client.executeAi(...)
Execute(h) ==
  LET fa == ExecuteAiArgs(h)
      target == FacadeTarget("executeAi", fa)
      rec == [id |-> nOps + 1, op |-> "execute", scope |-> NoScope, token |-> "-",
              captured |-> closure, phase |-> "main", fidx |-> 0,
              resp |-> NoEnv, lone |-> (ops = {}),
              data0 |-> IF ops = {} THEN data ELSE Unknown(kind),
              call |-> Call(target, NoScope, "-", NoParams)]
  IN  /\ loading' = DispatchLoading("isLoading")
      /\ error' = DispatchError
      /\ ops' = {Overlapped(x) : x \in ops} \cup {rec}
      /\ nOps' = nOps + 1
      /\ last' = [Event("invoke", rec.id, "execute", "-", "-", NoOutcome, FALSE,
                        NoEnv, rec.lone, rec.data0, rec.call)
                    EXCEPT !.sent = <<FacadeRequest(target, fa)>>, !.args = h]
      /\ UNCHANGED <<queryClient, kind, closure, data, lastParams>>

\* The transport call of execute settles: try / catch / finally.
SettleExecute(id, out) ==
  LET rec == OpById(id)
      d == Desc(rec.op)
      fr == FacadeResult(out, rec.call.method)
      post == StandardRefresh(d, fr, data, error)
  IN  /\ data' = post.data
      /\ error' = post.error
      /\ loading' = FinallyLoading(d.flag)
      /\ ops' = ops \ {rec}
      /\ last' = Escaped(fr, Event("settle", id, rec.op, "main", "-", out, TRUE,
                                   IF fr.threw
                                   THEN FailureEnvelope(ErrorMessage(fr, d.fallback))
                                   ELSE fr.env,
                                   rec.lone, rec.data0, NoCall))
      /\ UNCHANGED <<queryClient, kind, closure, lastParams, nOps>>

InitAi ==
  /\ kind = "aiExecute"
  /\ data = InitialData(kind)
  /\ loading = InitialLoading(kind)
  /\ error = NULL
  /\ lastParams = "null"
  /\ closure = "null"
  /\ queryClient = NoQueryClient
  /\ ops = {}
  /\ nOps = 0
  /\ last = Event("init", 0, "-", "-", "-", NoOutcome, FALSE, NoEnv, FALSE,
                  Unknown(kind), NoCall)

\* getPrompt(organizationPath, projectName, endpointName, input, apiKey)
GetPrompt ==
  \E a \in ArgsOf(Desc("getPrompt")) : Invoke("getPrompt", a, NoParams)

NextAi ==
  \/ \E h \in HookArgs : nOps < MaxOps /\ ops = {} /\ Execute(h)
  \/ \E x \in ops, out \in OverlapOutcomes :
        x.op = "execute" /\ SettleExecute(x.id, out)
  \/ nOps < MaxOps /\ ops = {} /\ GetPrompt
  \/ \E x \in ops, out \in TransportOutcomes :
        x.op = "getPrompt" /\ SettleCall(x.id, out)
  \/ ClearError
  \/ Reset

SpecAi == InitAi /\ [][NextAi]_vars

\* A binding of any family: those built on useState, useAiExecute included.
InitAny == Init \/ InitAi

NextAny ==
  \/ kind \in Kinds /\ Next
  \/ kind = "aiExecute" /\ NextAi

SpecAny == InitAny /\ [][NextAny]_vars

----------------------------------------------------------------------------
\* Callback identity

\* The operations whose useCallback lists lastParams among its dependencies:
\* the mutations of useProjects and useEndpoints that re-read the collection.
\* Every other dependency (client, the refresh callbacks) changes only with
\* baseUrl, networkClient or testMode.
DependsOnParams(k, o) ==
  RetainsParams(k) /\ o \in OpNames(k) /\ OpsOf(k)[o].followups # <<>>

\* The callbacks a binding returns.
Callbacks(k) == OpNames(k) \cup {"clearError", "reset"}

\* The identity of a returned callback: useCallback hands back the function
\* of the render in which its dependencies last changed.
CallbackIdentity(o) ==
  IF DependsOnParams(kind, o) THEN <<o, closure>> ELSE <<o, "null">>

----------------------------------------------------------------------------
\* useProviders and useProviderModels: two instances under one QueryClient

Instances == {1, 2}

OtherUrl == <<"https:", "/", "/", "other">>

\* The options of an instance: the base address of its client and, for
\* useProviderModels, the provider asked for.
ObserverOptions(k) ==
  {[baseUrl |-> b, provider |-> p] :
      b \in {HostUrl, OtherUrl},
      p \in (IF k = "providers" THEN {""} ELSE {"openai", "anthropic"})}

\* QUERY_KEYS.providers() and QUERY_KEYS.providerModels(provider)
QueryKey(k, options) ==
  IF k = "providers" THEN <<"shapeshyft", "providers">>
  ELSE <<"shapeshyft", "providers", options.provider, "models">>

\* The state of a query before its first fetch.
IdleQuery ==
  [status |-> "pending", data |-> NoData, fetching |-> FALSE, by |-> 0,
   error |-> [thrown |-> FALSE, isError |-> FALSE, msg |-> EmptyText]]

\* queryFn: const response = await client.getProviders();
\* if (!response.success || !response.data) throw new Error(response.error
\* || 'Failed to fetch providers'); return response.data
QueryFn(k, out) ==
  LET fr == FacadeResult(out, IF k = "providers" THEN "getProviders"
                              ELSE "getProviderModels")
      fallback == IF k = "providers" THEN F(<<"fetch", "providers">>)
                  ELSE F(<<"fetch", "provider", "models">>)
  IN  IF fr.threw THEN fr
      ELSE IF ~fr.env.success \/ fr.env.data = NoData
           THEN Thrown(TRUE, OrElse(fr.env.error, fallback))
           ELSE Returned(fr.env)

\* What a component reads through instance i: data ?? [], isLoading (a
\* first fetch in flight) and error instanceof Error ? error.message : null
Observed(i) ==
  LET q == queryClient.queries[QueryKey(kind, queryClient.observers[i])]
  IN  [data |-> IF q.data = NoData THEN "[]" ELSE q.data,
       isLoading |-> q.fetching /\ q.status = "pending",
       error |-> IF q.error.thrown /\ q.error.isError THEN Some(q.error.msg)
                 ELSE NULL]

InitProviders ==
  /\ kind \in {"providers", "providerModels"}
  /\ data = <<>>
  /\ loading = <<>>
  /\ error = NULL
  /\ lastParams = "null"
  /\ closure = "null"
  /\ ops = {}
  /\ nOps = 0
  /\ last = Event("init", 0, "-", "-", "-", NoOutcome, FALSE, NoEnv, FALSE,
                  <<>>, NoCall)
  /\ \E obs \in [Instances -> ObserverOptions(kind)] :
        queryClient =
          [observers |-> obs,
           queries |-> [key \in {QueryKey(kind, obs[i]) : i \in Instances} |->
                          IdleQuery]]

\* Instance i asks for a fetch of its query: the fetch on mount, or
\* refetch().  A first fetch in flight is joined; a refetch in flight is
\* cancelled and started again with the queryFn of instance i.
Fetch(i) ==
  LET key == QueryKey(kind, queryClient.observers[i])
      q == queryClient.queries[key]
      started == IF q.data = NoData
                 THEN [q EXCEPT !.fetching = TRUE, !.by = i, !.status = "pending",
                                !.error = IdleQuery.error]
                 ELSE [q EXCEPT !.fetching = TRUE, !.by = i]
  IN  /\ queryClient' =
           [queryClient EXCEPT
              !.queries[key] = IF q.fetching /\ q.data = NoData THEN q ELSE started]
      /\ last' = Event("fetch", i, "-", "-", "-", NoOutcome, FALSE, NoEnv, FALSE,
                       <<>>, NoCall)
      /\ UNCHANGED <<kind, closure, data, loading, error, lastParams, ops, nOps>>

\* The fetch of a query settles (after the retries of the query, if it
\* failed) and the result is written to the cache entry.
SettleQuery(key, out) ==
  LET q == queryClient.queries[key]
      r == QueryFn(kind, out)
  IN  /\ q.fetching
      /\ queryClient' =
           [queryClient EXCEPT
              !.queries[key] =
                 IF r.threw
                 THEN [q EXCEPT !.fetching = FALSE, !.status = "error",
                                !.error = [thrown |-> TRUE, isError |-> r.isError,
                                           msg |-> r.msg]]
                 ELSE [q EXCEPT !.fetching = FALSE, !.status = "success",
                                !.data = r.env.data, !.error = IdleQuery.error]]
      /\ last' = Event("settle", q.by, "-", "-", "-", out, TRUE, NoEnv, FALSE,
                       <<>>, NoCall)
      /\ UNCHANGED <<kind, closure, data, loading, error, lastParams, ops, nOps>>

NextProviders ==
  \/ \E i \in Instances : Fetch(i)
  \/ \E key \in DOMAIN queryClient.queries, out \in OverlapOutcomes :
        SettleQuery(key, out)

SpecProviders == InitProviders /\ [][NextProviders]_vars

----------------------------------------------------------------------------
\* Vocabulary of the properties

\* The facade returned an envelope with success = true.
EnvelopeSuccess(out) ==
  out.t = "resolve" /\ out.ok /\ out.hasEnv /\ out.env.success

\* ... and the envelope carries data.
PayloadSuccess(out) == EnvelopeSuccess(out) /\ out.env.data # NoData

\* The refresh whose call settled in the last step was not overlapped.
LoneRefreshSettled == last.ev = "settle" /\ last.rop # "-" /\ last.lone

\* Failures of a read: not-ok result, no envelope, success = false, exception.
ReadFailed(out) ==
  \/ out.t = "throw"
  \/ out.t = "resolve" /\ (~out.ok \/ ~out.hasEnv \/ ~out.env.success)

\* Any failure of a refresh: the above, or success = true without data.
RefreshFailed(out) == out.t # "none" /\ ~PayloadSuccess(out)

\* The not-found condition of the storage-configuration binding: an
\* unsuccessful envelope whose error text contains 'not found', or an
\* exception whose message contains 'not found' or '404'.
NotFoundCondition(out, method) ==
  LET fr == FacadeResult(out, method) IN
  \/ /\ ~fr.threw
     /\ ~fr.env.success
     /\ fr.env.error # NULL
     /\ Includes(fr.env.error[1], notFound)
  \/ /\ fr.threw
     /\ fr.isError
     /\ (Includes(fr.msg, notFound) \/ Includes(fr.msg, <<"404">>))

CollectionFields ==
  {"keys", "projects", "endpoints", "entities", "members", "invitations",
   "myInvitations"}

----------------------------------------------------------------------------
\* C1: when a refresh that no other operation overlaps gets ok and an
\* envelope with success = true and data, then after it has settled its
\* loading flag is false, the held data is the returned payload and error is
\* null.
C1_RefreshSuccess ==
  (LoneRefreshSettled /\ PayloadSuccess(last.out)) =>
     /\ ~loading[Desc(last.rop).flag]
     /\ data[Desc(last.rop).field] = last.out.env.data
     /\ error = NULL

C1_Witness ==
  /\ LoneRefreshSettled
  /\ PayloadSuccess(last.out)
  /\ last.data0[Desc(last.rop).field] \in Payloads
  /\ last.data0[Desc(last.rop).field] # last.out.env.data

\* C2 (as claimed): after a failed refresh has settled, its loading flag is
\* false and the held data is the value it had before the call, except that
\* a not-found failure of the storage-configuration binding sets it to null.
C2_FailedRefreshKeepsData ==
  (LoneRefreshSettled /\ ReadFailed(last.out)) =>
     /\ ~loading[Desc(last.rop).flag]
     /\ IF kind = "storageConfig"
           /\ NotFoundCondition(last.out, Desc(last.rop).method)
        THEN data[Desc(last.rop).field] = "null"
        ELSE data = last.data0

\* C3 (as claimed): after a failed refresh has settled, error is non-null and
\* non-empty, whatever the failure; the not-found case of the
\* storage-configuration binding is excepted.
C3_FailedRefreshSetsError ==
  (/\ LoneRefreshSettled
   /\ RefreshFailed(last.out)
   /\ ~(kind = "storageConfig"
        /\ NotFoundCondition(last.out, Desc(last.rop).method))) =>
     /\ error # NULL
     /\ error[1] # EmptyText

WaitingFlag(x) ==
  IF x.phase = "followup" THEN Desc(Desc(x.op).followups[x.fidx]).flag
  ELSE Desc(x.op).flag

\* C5: every refresh and every mutation sets its loading flag and clears
\* error at dispatch: while a lone operation waits for its transport call,
\* the flag is true and error is null.
C5_LoadingWhileInFlight ==
  \A x \in ops :
     (x.lone /\ x.phase \in {"main", "followup"}) =>
        (loading[WaitingFlag(x)] /\ error = NULL)

C5_Witness ==
  \E x \in ops :
     /\ x.lone
     /\ x.phase = "main"
     /\ Desc(x.op).cls = "mutation"
     /\ nOps = 2
     /\ last.ev = "invoke"

\* A mutation's own transport call settled in the last step.
MutationSettled ==
  last.ev = "settle" /\ last.phase = "main" /\ Desc(last.op).cls = "mutation"

\* The collection reads of the bindings that re-read after a mutation.
CollectionReads(k) ==
  CASE k = "keys" -> {"getKeys"}
    [] k = "projects" -> {"getProjects"}
    [] k = "endpoints" -> {"getEndpoints"}
    [] k = "entities" -> {"getEntities", "getEntityMembers",
                          "getEntityInvitations", "getMyInvitations"}
    [] OTHER -> {}

\* C8: in the keys, projects, endpoints and entities bindings, a mutation
\* whose facade call returns success = true issues the collection read (a
\* GET) with the mutation's scope identifiers and credential, at the
\* settlement of the mutation's own call and not before; a mutation that
\* returns success = false or throws issues no read.  In the entities
\* binding the read is identified by the facade method the hook calls.
C8_MutationResync ==
  /\ (MutationSettled /\ kind \in {"keys", "projects", "endpoints", "entities"}) =>
        IF EnvelopeSuccess(last.out)
        THEN \E x \in ops :
                /\ x.id = last.id
                /\ x.phase = "followup"
                /\ x.call = last.started
                /\ x.call.method \in CollectionReads(kind)
                /\ (kind # "entities" => x.call.verb = "get")
                /\ x.call.token = x.token
                /\ \/ x.call.scope = x.scope
                   \/ /\ x.call.scope = NoScope
                      /\ x.call.method \in {"getEntities", "getMyInvitations"}
        ELSE /\ last.started = NoCall
             /\ \A x \in ops : x.id # last.id
  /\ \A x \in ops :
        x.phase = "main" =>
           /\ x.call.method = Desc(x.op).method
           /\ x.call.token = x.token
           /\ x.call.scope = x.scope

C8_Witness ==
  /\ MutationSettled
  /\ kind = "entities"
  /\ last.op = "updateMemberRole"
  /\ EnvelopeSuccess(last.out)
  /\ last.started.method = "getEntityMembers"
  /\ last.started.scope = "s2"
  /\ last.started.token = "t2"

\* C9 (as claimed): in the projects and endpoints bindings the follow-up
\* refresh of a mutation carries the filter params most recently passed to
\* refresh as of the moment the follow-up is dispatched, under any
\* interleaving of refresh and mutation calls.  The retained cell holds those
\* params whenever it is not null (only reset nulls it), so the statement is
\* made of the steps that dispatch a follow-up while the cell is not null.
C9_FollowupUsesLatestParams ==
  [][(/\ RetainsParams(kind)
      /\ last'.ev \in {"settle", "resume"}
      /\ last'.started # NoCall
      /\ lastParams # "null")
        => last'.started.params = lastParams]_vars

\* A mutation of the settings or storage-configuration binding got
\* success = true.
DirectMutationSucceeded ==
  /\ MutationSettled
  /\ kind \in {"settings", "storageConfig"}
  /\ EnvelopeSuccess(last.out)

\* C10 (as claimed): a successful useSettings.updateSettings or
\* useStorageConfig.createOrUpdate / update / deleteConfig is followed by a
\* re-invocation of the binding's read with the same scope.
C10_EveryMutationResyncs ==
  DirectMutationSucceeded =>
     /\ last.started.verb = "get"
     /\ last.started.method =
           (IF kind = "settings" THEN "getSettings" ELSE "getStorageConfig")
     /\ \E x \in ops : x.id = last.id /\ x.call.scope = x.scope

\* C10 (amended): such a mutation issues no read; it stores the data of its
\* own envelope as the held record (the record is left as it was when the
\* envelope carries none), deleteConfig sets the record to null, and the
\* operation resolves with that envelope at this settlement.
C10_MutationStoresOwnEnvelope ==
  DirectMutationSucceeded =>
     /\ last.started = NoCall
     /\ last.done
     /\ last.ret = last.out.env
     /\ \A x \in ops : x.id # last.id
     /\ LET f == Desc(last.op).field IN
        IF last.op = "deleteConfig" THEN data[f] = "null"
        ELSE IF last.out.env.data # NoData THEN data[f] = last.out.env.data
        ELSE last.lone => data[f] = last.data0[f]

C10_Witness ==
  /\ DirectMutationSucceeded
  /\ last.op = "updateSettings"
  /\ last.out.env.data = "d2"
  /\ last.lone
  /\ last.data0["settings"] = "d1"

\* The loading flags an operation in flight drives.
FlagsDriven(x) ==
  {Desc(x.op).flag}
  \cup {Desc(Desc(x.op).followups[i]).flag : i \in DOMAIN Desc(x.op).followups}

\* C6: under any interleaving of operations, clearError, reset and
\* settlements, a loading flag is true only while an operation of the
\* binding that drives it has been dispatched and has not yet settled.
C6_LoadingImpliesInFlight ==
  \A g \in DOMAIN loading :
     loading[g] => \E x \in ops : g \in FlagsDriven(x)

C6_Witness ==
  /\ last.ev = "invoke"
  /\ \E x \in ops : x.phase = "resume" /\ x.id # last.id
  /\ \E g \in DOMAIN loading : loading[g]

\* The transport settles a call; a mutation resumes after its awaited refresh.
Settlement ==
  \E x \in ops, out \in OverlapOutcomes :
     \/ SettleRefresh(x.id, out)
     \/ SettleCall(x.id, out)
     \/ SettleFollowup(x.id, out)

Resumption == \E x \in ops : Resume(x.id)

\* SpecOverlap with a transport that settles every call it is given and an
\* event loop that runs every continuation.
SpecOverlapFair ==
  SpecOverlap /\ WF_vars(Settlement) /\ WF_vars(Resumption)

\* C7: when the transport settles every call and finitely many operations
\* are invoked, every operation eventually settles and every loading flag
\* is eventually false for good.
C7_EventuallyIdle ==
  <>[](ops = {} /\ \A g \in DOMAIN loading : ~loading[g])

C7_Witness ==
  /\ ops = {}
  /\ nOps = MaxOverlap
  /\ last.ev = "settle"
  /\ last.out.t = "throw"
  /\ \A g \in DOMAIN loading : ~loading[g]

----------------------------------------------------------------------------
\* The facade call of an operation returned an envelope.
FacadeReturned(out) == out.t = "resolve" /\ out.ok /\ out.hasEnv

\* C11: a mutation whose facade call returned an envelope resolves with
\* exactly that envelope: at once when it awaits no refresh, and otherwise
\* the envelope is kept through every follow-up refresh, whatever its
\* outcome, and is the value the mutation resolves with.
C11_MutationReturnsOwnEnvelope ==
  [][/\ (/\ last'.ev = "settle"
         /\ last'.phase = "main"
         /\ Desc(last'.op).cls = "mutation"
         /\ FacadeReturned(last'.out)) =>
            IF last'.done THEN last'.ret = last'.out.env
            ELSE \E y \in ops' : y.id = last'.id /\ y.resp = last'.out.env
     /\ \A x \in ops :
           x.phase \in {"followup", "resume"} =>
              \/ \E y \in ops' : y.id = x.id /\ y.resp = x.resp
              \/ last'.id = x.id /\ last'.done /\ last'.ret = x.resp]_vars

C11_Witness ==
  /\ last.ev = "resume"
  /\ last.done
  /\ last.lone
  /\ last.ret.success
  /\ last.ret.data = "d1"
  /\ error = Some(NetworkError)

\* The own call of a single-record read or of a mutation settled in the
\* last step with the facade throwing: the transport rejected, answered
\* not-ok or answered without an envelope.
CallThrew ==
  /\ last.ev = "settle"
  /\ last.phase = "main"
  /\ Desc(last.op).cls \in {"read", "mutation"}
  /\ ~FacadeReturned(last.out)

\* The message of the exception a facade call raises on `out`; <<>> stands
\* for a thrown value that is not an Error.
ThrownMessage(out, method) ==
  IF out.t = "throw"
  THEN (IF out.isError THEN Some(out.msg) ELSE NULL)
  ELSE Some(<<"Failed", "to">> \o FacadeOperation(method) \o <<":">>
            \o (IF out.hasEnv /\ Truthy(out.env.error) THEN out.env.error[1]
                ELSE IF out.hasEnv /\ Truthy(out.env.message)
                     THEN out.env.message[1]
                ELSE <<"Unknown", "error">>))

\* C12: when the facade call of a mutation or of a single-record read
\* throws, the operation resolves in that step with an envelope whose
\* success is false and whose error is the exception's message (the
\* operation's default text when the thrown value is no Error), the error
\* cell holds the same text, no follow-up refresh is dispatched and the held
\* data is unchanged.
C12_ThrownCallResolvesWithFailure ==
  CallThrew =>
     LET d == Desc(last.op)
         m == ThrownMessage(last.out, d.method)
         text == IF m = NULL THEN d.fallback ELSE m[1]
     IN  /\ last.done
         /\ ~last.ret.success
         /\ last.ret.error = Some(text)
         /\ last.ret.data = NoData
         /\ error = Some(text)
         /\ last.started = NoCall
         /\ \A x \in ops : x.id # last.id
         /\ last.lone => data = last.data0

C12_Witness ==
  /\ CallThrew
  /\ last.op = "updateSettings"
  /\ last.out.t = "throw"
  /\ last.out.isError
  /\ last.out.msg = NetworkError
  /\ last.lone
  /\ last.data0["settings"] = "d1"

SettlesLast(x) ==
  /\ last.ev = "settle"
  /\ last.phase = "main"
  /\ Desc(last.op).cls = "refresh"
  /\ ops = {x}
  /\ x.phase = "main"
  /\ Desc(x.op).cls = "refresh"

\* C14 (as claimed): when two refreshes of a binding are in flight together,
\* the state after both have settled is what the last-settling one would
\* have produced: on success its flag false, its payload held and error
\* null; on failure its flag false, the data as it was and error set.
C14_LastRefreshWins ==
  [][\A x \in ops :
       (SettlesLast(x) /\ last'.ev = "settle" /\ last'.id = x.id) =>
          LET d == Desc(x.op) IN
          /\ ~loading'[d.flag]
          /\ IF PayloadSuccess(last'.out)
             THEN data'[d.field] = last'.out.env.data /\ error' = NULL
             ELSE kind # "storageConfig" => (data' = data /\ error' # NULL)]_vars

\* C15: clearError sets error to null and leaves the held data, every
\* loading flag and the retained filter params as they were, in every state,
\* also while requests are in flight.
C15_ClearErrorFrame ==
  [][last'.ev = "clearError" =>
        /\ error' = NULL
        /\ data' = data
        /\ loading' = loading
        /\ lastParams' = lastParams
        /\ ops' = ops]_vars

C15_Witness ==
  /\ last.ev = "clearError"
  /\ kind = "projects"
  /\ data["projects"] = "d1"
  /\ lastParams = "pA"
  /\ loading["isLoading"]
  /\ \E x \in ops : x.phase = "followup"

\* C16 (as claimed): reset sets the data, every loading flag and error to
\* their initial values and clears the retained filter params, so that a
\* mutation invoked after reset and before any new refresh call (the
\* retained params are null, nothing overlaps the mutation) dispatches its
\* follow-up refresh with no filters.
C16_ResetClearsFilters ==
  [][/\ last'.ev = "reset" =>
           /\ \A f \in DOMAIN data' :
                 data'[f] = IF f \in CollectionFields THEN "[]" ELSE "null"
           /\ \A g \in DOMAIN loading' : ~loading'[g]
           /\ error' = NULL
           /\ lastParams' = "null"
     /\ \A x \in ops :
           (/\ RetainsParams(kind)
            /\ x.phase = "main"
            /\ x.lone
            /\ lastParams = "null"
            /\ last'.ev = "settle"
            /\ last'.id = x.id
            /\ last'.started # NoCall) => last'.started.params = NoParams]_vars

\* C17 (as claimed): a failed refresh of the storage-configuration binding
\* ends as an absence (record null, error null) exactly when the failure is
\* a not-found condition; every other failure populates the error cell.
C17_NotFoundIsAbsence ==
  (LoneRefreshSettled /\ kind = "storageConfig" /\ RefreshFailed(last.out)) =>
     IF NotFoundCondition(last.out, Desc(last.rop).method)
     THEN data["storageConfig"] = "null" /\ error = NULL
     ELSE error # NULL

\* C18: a facade method rejects with an Error whose message is 'Failed to
\* <operation>: <detail>' when the transport result has ok = false or
\* carries no envelope, <detail> being the envelope's error if non-empty,
\* else its message if non-empty, else 'Unknown error'; on every other
\* transport result it resolves with the transport's envelope as it is.
C18_FacadeRejectsOrReturns ==
  (last.ev = "facade" /\ last.out.t = "resolve") =>
     LET out == last.out
         detail ==
           IF out.hasEnv /\ out.env.error \notin {NULL, Some(EmptyText)}
           THEN out.env.error[1]
           ELSE IF out.hasEnv /\ out.env.message \notin {NULL, Some(EmptyText)}
                THEN out.env.message[1]
           ELSE <<"Unknown", "error">>
     IN  IF ~out.ok \/ ~out.hasEnv
         THEN /\ last.rejected
              /\ last.reason =
                   Some(<<"Failed", "to">> \o FacadeOperation(last.op)
                          \o <<":">> \o detail)
         ELSE /\ ~last.rejected
              /\ last.ret = out.env

C18_Witness ==
  /\ last.ev = "facade"
  /\ last.op = "updateEndpoint"
  /\ ~last.out.ok
  /\ last.out.hasEnv
  /\ last.out.env.error = Some(EmptyText)
  /\ last.out.env.message = Some(SomeMessage)
  /\ last.reason = Some(<<"Failed", "to", "update", "endpoint", ":", "try", "later">>)

\* The suffix relation on texts.
EndsWith(s, suffix) ==
  /\ Len(suffix) <= Len(s)
  /\ SubSeq(s, Len(s) - Len(suffix) + 1, Len(s)) = suffix

\* A lone refresh settled in the last step on a transport result with
\* ok = true and an envelope.
LoneRefreshGotEnvelope ==
  /\ LoneRefreshSettled
  /\ last.out.t = "resolve"
  /\ last.out.ok
  /\ last.out.hasEnv

\* C19 (as claimed): after a refresh whose transport call answered ok with
\* an envelope carrying success = false, the error cell is 'Failed to
\* <operation>: <text>', <text> being the envelope's error, or its message
\* when it has no error.  Stated of the bindings whose facade methods, and
\* so whose operation names, are at hand.
C19_EnvelopeFailurePrefixed ==
  (/\ LoneRefreshGotEnvelope
   /\ kind \in {"keys", "projects", "endpoints", "analytics"}
   /\ ~last.out.env.success
   /\ (Truthy(last.out.env.error) \/ Truthy(last.out.env.message))) =>
      error = Some(<<"Failed", "to">>
                   \o FacadeOperation(Desc(last.rop).method) \o <<":">>
                   \o (IF Truthy(last.out.env.error) THEN last.out.env.error[1]
                       ELSE last.out.env.message[1]))

\* C20 (as claimed): after a refresh whose transport call answered ok with
\* an envelope carrying success = true and no data, the facade has
\* rejected and the error cell ends with 'Unknown error'.
C20_EmptyPayloadIsUnknownError ==
  (/\ LoneRefreshGotEnvelope
   /\ last.out.env.success
   /\ last.out.env.data = NoData) =>
      /\ FacadeResult(last.out, Desc(last.rop).method).threw
      /\ error # NULL
      /\ EndsWith(error[1], <<"Unknown", "error">>)

\* C20 (amended): on such an answer the facade returns the envelope and
\* the refresh takes its failure branch: the flag is false, the held data
\* is unchanged and error is the envelope's error text if it has one, else
\* the default text of the refresh ('Failed to fetch analytics').  In the
\* storage-configuration binding the record becomes null and error is the
\* envelope's error text if it has one that does not contain 'not found',
\* else null.
C20_EmptyPayloadTakesFailureBranch ==
  (/\ LoneRefreshGotEnvelope
   /\ last.out.env.success
   /\ last.out.env.data = NoData) =>
      LET d == Desc(last.rop)
          e == last.out.env.error
          default ==
            CASE last.rop = "refresh" /\ kind = "keys" -> <<"fetch", "keys">>
              [] last.rop = "refresh" /\ kind = "projects" -> <<"fetch", "projects">>
              [] last.rop = "refresh" /\ kind = "endpoints" -> <<"fetch", "endpoints">>
              [] last.rop = "refresh" /\ kind = "analytics" -> <<"fetch", "analytics">>
              [] last.rop = "refresh" /\ kind = "settings" -> <<"fetch", "settings">>
              [] last.rop = "refreshConfig" -> <<"fetch", "rate", "limits", "config">>
              [] last.rop = "refreshHistory" -> <<"fetch", "rate", "limit", "history">>
              [] last.rop = "refreshEntities" -> <<"fetch", "entities">>
              [] last.rop = "refreshMembers" -> <<"fetch", "members">>
              [] last.rop = "refreshInvitations" -> <<"fetch", "invitations">>
              [] last.rop = "refreshMyInvitations" -> <<"fetch", "my", "invitations">>
              [] OTHER -> <<>>
      IN  /\ ~FacadeResult(last.out, d.method).threw
          /\ ~loading[d.flag]
          /\ IF kind = "storageConfig"
             THEN /\ data[d.field] = "null"
                  /\ error = IF e \notin {NULL, Some(EmptyText)}
                                 /\ ~Includes(e[1], notFound)
                              THEN e ELSE NULL
             ELSE /\ data = last.data0
                  /\ error = IF e \notin {NULL, Some(EmptyText)} THEN e
                              ELSE Some(<<"Failed", "to">> \o default)

C20_Witness ==
  /\ LoneRefreshGotEnvelope
  /\ kind = "analytics"
  /\ last.out.env = Env(TRUE, NoData, NULL, NULL)
  /\ last.data0["analytics"] = "d1"
  /\ data["analytics"] = "d1"
  /\ error = Some(<<"Failed", "to", "fetch", "analytics">>)

----------------------------------------------------------------------------
C22_TransportErrorRejects ==
  (last.ev = "facade" /\ last.out.t = "throw") =>
     /\ last.rejected
     /\ last.ret = NoEnv
     /\ last.reason = IF last.out.isError THEN Some(last.out.msg) ELSE NULL

C22_Witness ==
  /\ last.ev = "facade"
  /\ last.op = "getKeys"
  /\ last.out = Throw(TRUE, NetworkError)
  /\ last.rejected
  /\ last.reason = Some(NetworkError)

\* C23 (as claimed): execute hands exactly one request to the transport, a
\* get when the selector is 'GET' and a post otherwise; the URL of a get
\* ends with ?input=<the JSON text of the input>, serialized as a query
\* value, and the body of a post is the input itself.
C23_ExecuteDispatch ==
  (kind = "aiExecute" /\ last.ev = "invoke") =>
     LET h == last.args
         get == h.method = JsString(<<"GET">>)
     IN  /\ Len(last.sent) = 1
         /\ last.sent[1].verb = IF get THEN "get" ELSE "post"
         /\ (get /\ h.input # JsUndefined) =>
               EndsWith(last.sent[1].url,
                        <<"?", "input", "=">> \o FormEncode(JSONstringify(h.input).s))
         /\ ~get => last.sent[1].body = [shape |-> "value", value |-> h.input]

\* C24 (as claimed): with baseUrl, networkClient and testMode unchanged,
\* every callback a binding returns keeps its identity through every step:
\* dispatches, settlements, clearError, reset and re-renders.
C24_StableCallbacks ==
  [][\A o \in Callbacks(kind) : CallbackIdentity(o)' = CallbackIdentity(o)]_vars

\* C25 (as claimed): no step that belongs to one binding instance (an
\* operation it invokes, or the settlement of a call made for it) changes
\* the data, the loading flag or the error read through another instance;
\* stated of two instances of useProviders or of useProviderModels.
C25_InstanceIsolation ==
  [][\A i \in Instances : \A j \in Instances \ {i} :
        (last'.ev \in {"fetch", "settle"} /\ last'.id = i) =>
           Observed(j)' = Observed(j)]_vars

\* C26: the one request of a facade method for keys, projects, endpoints or
\* analytics carries exactly Content-Type and Accept 'application/json'
\* and Authorization 'Bearer <token>' with the caller's token; the one
\* request of an AI-execution method carries exactly Content-Type and Accept
\* and no Authorization.
C26_HeaderSets ==
  last.ev = "facade" =>
     \A i \in 1..Len(last.sent) :
        LET h == last.sent[i].headers IN
        /\ h["Content-Type"] = <<"application/json">>
        /\ h["Accept"] = <<"application/json">>
        /\ IF last.op \in {"executeAiGet", "executeAiPost", "executeAi"}
           THEN DOMAIN h = {"Content-Type", "Accept"}
           ELSE /\ DOMAIN h = {"Content-Type", "Accept", "Authorization"}
                /\ h["Authorization"] = <<"Bearer", " ">> \o last.args.token

C26_Witness ==
  /\ last.ev = "facade"
  /\ last.op = "executeAiGet"
  /\ Len(last.sent) = 1
  /\ "Authorization" \notin DOMAIN last.sent[1].headers
  /\ last.args.input = JsObject(0, <<>>)

\* The entries of a params object that are neither null nor undefined, each
\* as key=String(value) with its characters as they are, joined by '&'.
RECURSIVE PlainQuery(_)
PlainQuery(entries) ==
  IF entries = <<>> THEN <<>>
  ELSE LET e == Head(entries)
           rest == PlainQuery(Tail(entries))
       IN  IF e.value.t \in {"undefined", "null"} THEN rest
           ELSE e.key \o <<"=">> \o String(e.value)
                  \o (IF rest = <<>> THEN <<>> ELSE <<"&">> \o rest)

\* The same with key and String(value) in the serialization of
\* URLSearchParams.
RECURSIVE EncodedQuery(_)
EncodedQuery(entries) ==
  IF entries = <<>> THEN <<>>
  ELSE LET e == Head(entries)
           rest == EncodedQuery(Tail(entries))
       IN  IF e.value.t \in {"undefined", "null"} THEN rest
           ELSE FormEncode(e.key) \o <<"=">> \o FormEncode(String(e.value))
                  \o (IF rest = <<>> THEN <<>> ELSE <<"&">> \o rest)

\* A filtered read of the facade was called without a params object.
ReadWithoutParams ==
  /\ last.ev = "facade"
  /\ last.op \in {"getProjects", "getEndpoints", "getAnalytics"}
  /\ ~last.args.params.given

\* The URL of the request ends with the path and holds no '?'.
NothingAppended ==
  /\ \A i \in 1..Len(last.sent[1].url) : last.sent[1].url[i] # "?"
  /\ last.sent[1].url[Len(last.sent[1].url)]
        \in {"projects", "endpoints", "analytics"}

\* C27 (as claimed): buildQueryString omits the null and undefined entries,
\* renders the others as key=String(value), in enumeration order, joined
\* by '&' after a leading '?', and returns '' when no entry is left; a
\* facade read given no params object appends nothing to the path.
C27_QueryStringPlain ==
  /\ last.ev = "buildQueryString" =>
        last.result = IF PlainQuery(last.args.params) = <<>> THEN <<>>
                      ELSE <<"?">> \o PlainQuery(last.args.params)
  /\ ReadWithoutParams => NothingAppended

\* C27 (amended): as above, each key and each String(value) being
\* serialized as URLSearchParams does: letters, digits and * - . _ are
\* kept, a space becomes '+', every other character is percent-encoded.
C27_QueryStringEncoded ==
  /\ last.ev = "buildQueryString" =>
        last.result = IF EncodedQuery(last.args.params) = <<>> THEN <<>>
                      ELSE <<"?">> \o EncodedQuery(last.args.params)
  /\ ReadWithoutParams => NothingAppended

C27_Witness ==
  /\ last.ev = "buildQueryString"
  /\ Len(last.args.params) = 2
  /\ last.args.params[1].value = JsString(<<"a", " ", "b">>)
  /\ last.result = <<"?", "q", "=", "a", "+", "b", "&",
                     "tag", "=", "x", "%26", "y", "%3D", "z">>

\* A base address without any slash at its end.
RECURSIVE SlashFree(_)
SlashFree(base) ==
  IF base # <<>> /\ base[Len(base)] = "/"
  THEN SlashFree(SubSeq(base, 1, Len(base) - 1))
  ELSE base

\* C28: for every base address and path, buildUrl of the base with a
\* trailing slash is buildUrl of the base without it, and that URL is the
\* slash-free base immediately followed by the path.
C28_TrailingSlashIrrelevant ==
  last.ev = "buildUrl" =>
    /\ buildUrl(last.args.baseUrl \o <<"/">>, last.args.path) = last.result
    /\ last.result = SlashFree(last.args.baseUrl) \o last.args.path

\* The number of elements of a string that are the character c.
Occurrences(c, s) == Cardinality({i \in 1..Len(s) : s[i] = c})

\* The path of the request sent: the URL after the base address, up to the
\* query string.
SentPath ==
  LET url == last.sent[1].url
      base == last.args.baseUrl
      from == IF base[Len(base)] = "/" THEN Len(base) ELSE Len(base) + 1
      marks == {i \in 1..Len(url) : url[i] = "?"}
      to == IF marks = {} THEN Len(url)
            ELSE (CHOOSE i \in marks : \A j \in marks : i <= j) - 1
  IN  SubSeq(url, from, to)

\* C29: the path segments that come from the caller are percent-encoded:
\* the path of every request holds no raw space and exactly the separators
\* of the method's path template, whatever the identifiers contain.
C29_SegmentsEncoded ==
  last.ev = "facade" =>
    /\ Occurrences(" ", SentPath) = 0
    /\ Occurrences("/", SentPath) =
         Occurrences("/", FacadePath(FacadeTarget(last.op, last.args), DefaultArgs))

C29_Witness ==
  /\ last.ev = "facade"
  /\ last.op = "getEndpoint"
  /\ last.args.userId = <<"a", "/", "b">>
  /\ last.args.id = <<"a", " ", "b">>
  /\ Occurrences("%2F", SentPath) = 1
  /\ Occurrences("%20", SentPath) = 1

\* C30: in a binding with a single loading flag, under any interleaving of
\* operations, settlements and reset, the flag is true whenever an
\* operation of the binding waits for its transport call.
C30_LoadingWhileAnyInFlight ==
  (Cardinality(Flags(kind)) = 1 /\ \E x \in ops : x.phase \in {"main", "followup"})
     => \A g \in DOMAIN loading : loading[g]

\* A mutation that no other operation and no reset has overlapped still
\* has a network call to wait for: its own, a follow-up refresh, or a
\* follow-up refresh it has yet to start.
CallsOutstanding(x) ==
  /\ x.lone
  /\ Desc(x.op).cls = "mutation"
  /\ \/ x.phase \in {"main", "followup"}
     \/ x.phase = "resume" /\ x.fidx < Len(Desc(x.op).followups)

\* C31: for a mutation that nothing overlaps, isLoading is true in every
\* state from its dispatch until the last network call made on its behalf
\* has settled, the interval between two follow-up refreshes included.
C31_LoadingUntilLastCall ==
  \A x \in ops : CallsOutstanding(x) => loading[Desc(x.op).flag]

\* The call of a refresh invoked by the caller settles in the step right
\* after a reset.
RefreshSettlesAfterReset ==
  /\ last.ev = "reset"
  /\ last'.ev = "settle"
  /\ last'.phase = "main"
  /\ Desc(last'.op).cls = "refresh"

\* C32: reset neither cancels nor invalidates the requests in flight: they
\* stay pending, and a refresh dispatched before the reset that settles
\* after it stores its payload in data on success, or its message in error
\* on failure, so that the binding leaves its initial state.
C32_ResetDoesNotCancel ==
  [][/\ last'.ev = "reset" => {x.id : x \in ops'} = {x.id : x \in ops}
     /\ RefreshSettlesAfterReset =>
          LET d == Desc(last'.op)
              out == last'.out
          IN  /\ (out.t = "resolve" /\ out.env.success) =>
                    /\ data' = [InitialData(kind) EXCEPT ![d.field] = out.env.data]
                    /\ error' = NULL
              /\ (out.t = "resolve" /\ ~out.env.success) =>
                    /\ data' = InitialData(kind)
                    /\ error' = out.env.error
              /\ out.t = "throw" =>
                    /\ data' = InitialData(kind)
                    /\ error' = Some(out.msg)
              /\ <<data', error'>> # <<InitialData(kind), NULL>>]_vars

C32_Witness ==
  /\ last.ev = "settle"
  /\ last.phase = "main"
  /\ Desc(last.op).cls = "refresh"
  /\ nOps = 1
  /\ ~last.lone
  /\ data # InitialData(kind)
  /\ ops = {}

\* The facade call of a mutation that nothing overlapped returned, without
\* throwing, an envelope with success = false.
MutationReturnedFailure ==
  /\ MutationSettled
  /\ FacadeReturned(last.out)
  /\ ~last.out.env.success
  /\ last.lone

\* C33: when the facade call of a create / update / delete operation
\* returns an envelope with success = false, the operation resolves with
\* that envelope, dispatches no follow-up read, leaves the held data as it
\* was and leaves error null.
C33_FailedMutationIsSilent ==
  MutationReturnedFailure =>
     /\ last.done
     /\ last.ret = last.out.env
     /\ last.started = NoCall
     /\ ops = {}
     /\ data = last.data0
     /\ error = NULL

C33_Witness ==
  /\ MutationReturnedFailure
  /\ kind = "projects"
  /\ last.op = "deleteProject"
  /\ last.out.env.error = Some(ServerError)
  /\ data["projects"] = "d1"

\* C34: when a mutation succeeded and a follow-up refresh fails, the
\* refresh leaves its message in error and the data as they were, and the
\* mutation keeps that error until it resolves, which it does with its own
\* success = true envelope, isLoading false and the data still unchanged.
C34_FailedFollowupIsReported ==
  [][/\ (/\ last'.ev = "settle"
         /\ last'.phase = "followup"
         /\ last'.lone
         /\ RefreshFailed(last'.out)) =>
            (error' # NULL /\ data' = data)
     /\ \A x \in ops :
          (/\ x.lone
           /\ x.phase = "resume"
           /\ error # NULL
           /\ last'.ev = "resume"
           /\ last'.id = x.id) =>
              /\ error' = error
              /\ last'.done
              /\ last'.ret = x.resp
              /\ last'.ret.success
              /\ ~loading'[Desc(x.op).flag]
              /\ data' = x.data0]_vars

\* The operation whose try / catch ran in a settlement: the refresh a
\* mutation awaited, or the operation that settled.
Settling(e) == IF e.rop # "-" THEN e.rop ELSE e.op

\* The data fields an operation may write.
OwnFields(o) ==
  CASE o = "refreshEntities" -> {"entities"}
    [] o = "refreshMembers" -> {"members"}
    [] o = "refreshInvitations" -> {"invitations"}
    [] o = "refreshMyInvitations" -> {"myInvitations"}
    [] o = "getEntity" -> {"currentEntity"}
    [] o \in {"getKey", "getProject", "getEndpoint", "getProjectApiKey",
              "getPrompt"} -> {}
    [] OTHER -> {Desc(o).field} \ {"-"}

\* C35: an operation writes at most its own data field: a settlement
\* changes no field but that of the operation whose call settled, none at
\* all for getKey, getProject, getEndpoint, getProjectApiKey and getPrompt,
\* whatever the outcome; dispatching and resuming change no data.
C35_OwnFieldOnly ==
  [][/\ last'.ev \in {"invoke", "resume"} => data' = data
     /\ last'.ev = "settle" =>
          \A f \in DOMAIN data :
             f \notin OwnFields(Settling(last')) => data'[f] = data[f]]_vars

C35_Witness ==
  /\ kind = "entities"
  /\ last.ev = "settle"
  /\ last.op = "refreshMembers"
  /\ data["entities"] = "d1"
  /\ data["members"] = "d2"

\* The data cell and the loading flag of the other useRateLimits operation.
OtherCell(o) == IF o = "refreshConfig" THEN "history" ELSE "config"

OtherFlag(o) ==
  IF o = "refreshConfig" THEN "isLoadingHistory" ELSE "isLoadingConfig"

\* C36: in useRateLimits, dispatching or settling refreshConfig leaves
\* history and isLoadingHistory as they are, dispatching or settling
\* refreshHistory leaves config and isLoadingConfig as they are, and
\* dispatching either sets the shared error to null, whichever operation
\* recorded it.
C36_RateLimitsFrame ==
  [][(kind = "rateLimits" /\ last'.ev \in {"invoke", "settle"}) =>
        /\ data'[OtherCell(last'.op)] = data[OtherCell(last'.op)]
        /\ loading'[OtherFlag(last'.op)] = loading[OtherFlag(last'.op)]
        /\ last'.ev = "invoke" => error' = NULL]_vars

C36_Witness ==
  /\ kind = "rateLimits"
  /\ last.ev = "settle"
  /\ last.op = "refreshConfig"
  /\ error = Some(ServerError)
  /\ loading["isLoadingHistory"]
  /\ ~loading["isLoadingConfig"]
  /\ \E x \in ops : x.op = "refreshHistory"

\* The value v was written in a step that consumed an envelope with
\* success = true carrying v as its data.
PayloadOfStep(v) == PayloadSuccess(last'.out) /\ v = last'.out.env.data

\* C37: the data a binding holds is its initial empty value or the payload
\* of a success = true envelope the transport returned to a call of that
\* same instance: every change of a data cell writes the initial value or
\* the payload of the envelope consumed in that step, and the data read
\* through an instance of useProviders or useProviderModels changes only to
\* the payload returned to that instance's own call.
C37_DataFromOwnCalls ==
  [][/\ kind \in Kinds \cup {"aiExecute"} =>
          \A f \in DOMAIN data :
             data'[f] # data[f] =>
                \/ data'[f] = EmptyValue(f)
                \/ last'.ev = "settle" /\ PayloadOfStep(data'[f])
     /\ kind \in {"providers", "providerModels"} =>
          \A i \in Instances :
             Observed(i)'.data # Observed(i).data =>
                \/ Observed(i)'.data = "[]"
                \/ /\ last'.ev = "settle"
                   /\ last'.id = i
                   /\ PayloadOfStep(Observed(i)'.data)]_vars

\* The network call an invitation operation waits for in each of its
\* phases: its own post, then one read at a time.
ExpectedCall(x) ==
  CASE x.phase = "main" -> x.op
    [] x.phase = "followup" /\ x.fidx = 1 -> "getMyInvitations"
    [] x.phase = "followup" /\ x.fidx = 2 /\ x.op = "acceptInvitation"
         -> "getEntities"
    [] OTHER -> "-"

\* C38: acceptInvitation issues accept (post), then the my-invitations
\* read once the post has returned success, then the entities read once
\* the my-invitations read has settled, whatever its outcome, each call
\* being dispatched after the previous one has settled, and nothing after
\* the entities read; declineInvitation issues its post and, on success,
\* the my-invitations read alone.
C38_InvitationCallOrder ==
  [][kind = "entities" =>
       /\ \A x \in ops' :
            x.op \in {"acceptInvitation", "declineInvitation"} =>
               x.call.method = ExpectedCall(x)
       /\ \A x \in ops :
            (x.op \in {"acceptInvitation", "declineInvitation"}
             /\ last'.id = x.id /\ last'.ev \in {"settle", "resume"}) =>
               /\ (x.phase = "main" /\ EnvelopeSuccess(last'.out)) =>
                     /\ last'.started.method = "getMyInvitations"
                     /\ last'.started.verb = "get"
               /\ (x.phase = "main" /\ ~EnvelopeSuccess(last'.out)) =>
                     (last'.started = NoCall /\ last'.done)
               /\ x.phase = "followup" => last'.started = NoCall
               /\ (x.phase = "resume" /\ x.op = "acceptInvitation" /\ x.fidx = 1) =>
                     /\ last'.started.method = "getEntities"
                     /\ last'.started.verb = "get"
               /\ (x.phase = "resume"
                   /\ (x.op = "declineInvitation" \/ x.fidx = 2)) =>
                     (last'.started = NoCall /\ last'.done)
       /\ (last'.ev = "invoke" /\ last'.op = "acceptInvitation") =>
             (last'.started.method = "acceptInvitation"
              /\ last'.started.verb = "post")]_vars

C38_Witness ==
  /\ kind = "entities"
  /\ last.ev = "resume"
  /\ last.op = "acceptInvitation"
  /\ last.started.method = "getEntities"
  /\ nOps = 1
  /\ last.lone
  /\ data["myInvitations"] = "[]"

====
